---- MODULE Spec2Model ----
(***************************************************************************)
(* Model of the orchestration core of kali-agents-mcp:                     *)
(* src/src/agents/supervisor.py (SupervisorAgent) over the records of      *)
(* src/src/models/core.py.                                                 *)
(*                                                                         *)
(* Conventions.  Floats that the code only ever sets to fixed values are   *)
(* kept as hundredths (1.0 = 100, 0.9 = 90, 0.8 = 80).  Wall-clock         *)
(* durations are inputs of the environment and are drawn from Durations.   *)
(* The uuid of a Task made by process_user_request is its index in the     *)
(* registry; a Task built by hand has id 0.  A python dict whose keys may  *)
(* be missing is a record with exactly the fields it has (`"k" in d` is    *)
(* "k" \in DOMAIN d); a dict iterated in insertion order is a sequence of  *)
(* its entries.  An Optional field is a sequence of length 0 or 1.         *)
(* Request texts are sequences of one-character strings.                   *)
(***************************************************************************)
EXTENDS Integers, Sequences, FiniteSets, TLC

VARIABLES
    active_tasks,     \* system_state.active_tasks: the Tasks of process_user_request, by id
    handTask,         \* the Task object of the caller of _execute_plan (Optional)
    completed_tasks,  \* system_state.completed_tasks
    history,          \* agent id -> AgentState.performance_history
    adapted,          \* algorithm name -> number of adapt() calls it has received
    insights,         \* system_state.learning_insights: key -> the stored adapt() result
    pc,               \* position of the coroutine in flight
    entry,            \* which entry point started it
    cur,              \* id of the Task it works on
    results,          \* the local `results` of _execute_plan
    stepIdx,          \* position of the for loop of _execute_plan in plan.steps
    toolIdx,          \* position of the for loop of _execute_step in step["tools"]
    step_results,     \* the local `step_results` of _execute_step
    step_result,      \* the value _execute_step returned to _execute_plan
    toolLog,          \* tool names handed to the collaborator during this run, in order
    plannerBuilt,     \* ids of the Tasks whose plan _create_execution_plan returned
    learnLog,         \* every metrics record _learn_from_execution was given, in order
    response,         \* the value last returned to the caller of an entry point
    suspended,        \* the process_user_request coroutines waiting on a tool call
    ga,               \* a GeneticAlgorithm object built on its own (ml_algorithms.py)
    qagent,           \* a QLearningAgent object built on its own (ml_algorithms.py)
    recognizer,       \* a PatternRecognition object built on its own (ml_algorithms.py)
    patternLog        \* the add_pattern calls made on it, in order

vars == <<active_tasks, handTask, completed_tasks, history, adapted, insights, pc, entry,
          cur, results, stepIdx, toolIdx, step_results, step_result, toolLog,
          plannerBuilt, learnLog, response, suspended, ga, qagent, recognizer,
          patternLog>>

runVars == <<results, stepIdx, toolIdx, step_results, step_result, toolLog>>

\* the algorithm objects built outside a supervisor
mlVars == <<ga, qagent, recognizer, patternLog>>

\* what the supervisor owns besides the Tasks
learnVars == <<completed_tasks, history, adapted, insights, learnLog>>

---------------------------------------------------------------------------
(* Bounds of the model *)

\* process_user_request calls on one supervisor; direct calls are made while
\* fewer have been made.
MaxRequests == 2
\* Steps of a hand-built plan given to _execute_plan directly.
MaxHandSteps == 2
\* Fragments concatenated into one request text for the classifier.
MaxFragments == 2
\* Direct _learn_from_execution calls beyond the history limit.
ExtraLearnCalls == 3
\* Runs with errors among the direct _learn_from_execution calls.
MaxFailedRuns == 1
\* Direct _learn_from_execution calls on Tasks that carry a learning_context.
MaxContextCalls == 3
\* {tool, result} pairs in one list given to _extract_findings_from_results.
MaxToolResults == 3
\* Largest population_size a GeneticAlgorithm is built with.
MaxPopulation == 3
\* Largest gene_count a GeneticAlgorithm is built with.
MaxGenes == 2
\* Gene values are multiples of 1/GeneUnit: the float 1.0 is GeneUnit.
GeneUnit == 2
\* Generations one GeneticAlgorithm object is evolved through.
MaxGenerations == 10
\* adapt() calls on one QLearningAgent object.
MaxQAdapts == 4
\* Keys of a feature mapping given to the PatternRecognition object.
MaxFeatures == 2
\* add_pattern calls made on one PatternRecognition object
MaxPatternCalls == 3

(* Program constants *)

\* supervisor.py:372  `if len(agent_state.performance_history) > 50`
HistoryLimit == 50

---------------------------------------------------------------------------
(* Enumerations and registries *)

\* core.py TaskStatus
TaskStatus == {"pending", "assigned", "in_progress", "completed", "failed",
               "cancelled", "requires_adaptation"}

\* supervisor.py _initialize_agents: agent_configs, in registration order
AgentIds == <<"network_agent", "web_agent", "vulnerability_agent",
              "forensic_agent", "social_agent", "report_agent">>

Agents == {AgentIds[i] : i \in 1..Len(AgentIds)}

\* supervisor.py __init__: self.adaptation_algorithms, in registration order
AlgorithmNames == <<"fuzzy_logic", "genetic_algorithm", "q_learning">>

Algorithms == {AlgorithmNames[i] : i \in 1..Len(AlgorithmNames)}

\* Task.learning_context = None
NoContext == "None"

\* Task.execution_plan = None
NoPlan == <<>>

\* core.py PerformanceMetrics(): the defaults of a Task that has not run
DefaultMetrics ==
    [execution_time |-> 0, success_rate |-> 0, accuracy |-> 0,
     error_count |-> 0, confidence_score |-> 0]

---------------------------------------------------------------------------
(* Request texts and classification *)

\* str.lower() on the letters the texts use
Lower(c) ==
    CASE c = "P" -> "p" [] c = "E" -> "e" [] c = "N" -> "n" [] c = "T" -> "t"
      [] c = "S" -> "s" [] c = "C" -> "c" [] c = "A" -> "a" [] c = "R" -> "r"
      [] c = "O" -> "o" [] c = "W" -> "w" [] c = "B" -> "b" [] c = "I" -> "i"
      [] OTHER -> c

LowerText(s) == [i \in 1..Len(s) |-> Lower(s[i])]

\* python `sub in s` on strings
Contains(sub, s) ==
    \E i \in 0..(Len(s) - Len(sub)) :
        \A j \in 1..Len(sub) : s[i + j] = sub[j]

KwPentest == <<"p","e","n","t","e","s","t">>
KwPenetrationTest == <<"p","e","n","e","t","r","a","t","i","o","n"," ","t","e","s","t">>
KwScan == <<"s","c","a","n">>
KwRecon == <<"r","e","c","o","n">>
KwWeb == <<"w","e","b">>

\* faulty variant: the scan/recon test comes before the pentest test
ClassifyType_ScanFirst(request) ==
    LET request_lower == LowerText(request) IN
    IF Contains(KwScan, request_lower) \/ Contains(KwRecon, request_lower)
    THEN "network_scan"
    ELSE IF Contains(KwPentest, request_lower) \/ Contains(KwPenetrationTest, request_lower)
    THEN "penetration_test"
    ELSE IF Contains(KwWeb, request_lower)
    THEN "web_assessment"
    ELSE "general_assessment"

\* supervisor.py:93-107: the keyword cascade of _analyze_and_create_task
ClassifyType(request) ==
    LET request_lower == LowerText(request) IN
    IF Contains(KwPentest, request_lower) \/ Contains(KwPenetrationTest, request_lower)
    THEN "penetration_test"
    ELSE IF Contains(KwScan, request_lower) \/ Contains(KwRecon, request_lower)
    THEN "network_scan"
    ELSE IF Contains(KwWeb, request_lower)
    THEN "web_assessment"
    ELSE "general_assessment"

ClassifyPriority(request) ==
    LET request_lower == LowerText(request) IN
    IF Contains(KwPentest, request_lower) \/ Contains(KwPenetrationTest, request_lower)
    THEN "HIGH"
    ELSE "MEDIUM"

\* parameters.get("target", "localhost")
TargetOf(parameters) ==
    IF "target" \in DOMAIN parameters THEN parameters["target"] ELSE "localhost"

\* faulty variant: the algorithm_type is taken from the caller's parameters when
\* they name one
AnalyzeAndCreateTask_ContextFromParameters(id, request, parameters) ==
    [id |-> id,
     description |-> request,
     task_type |-> ClassifyType(request),
     status |-> "pending",
     priority |-> ClassifyPriority(request),
     target |-> TargetOf(parameters),
     execution_plan |-> NoPlan,
     performance_metrics |-> DefaultMetrics,
     learning_context |-> IF "algorithm_type" \in DOMAIN parameters
                          THEN parameters["algorithm_type"] ELSE "genetic_algorithm"]

\* supervisor.py:91-122 _analyze_and_create_task; id is the fresh uuid
AnalyzeAndCreateTask(id, request, parameters) ==
    [id |-> id,
     description |-> request,
     task_type |-> ClassifyType(request),
     status |-> "pending",
     priority |-> ClassifyPriority(request),
     target |-> TargetOf(parameters),
     execution_plan |-> NoPlan,
     performance_metrics |-> DefaultMetrics,
     learning_context |-> "genetic_algorithm"]

---------------------------------------------------------------------------
(* Execution planner *)

RECURSIVE SumTimes(_)
\* sum(step["estimated_time"] for step in plan_steps)
SumTimes(steps) ==
    IF steps = <<>> THEN 0
    ELSE Head(steps).estimated_time + SumTimes(Tail(steps))

\* supervisor.py:128-152: the step table of _create_execution_plan
PlanSteps(task_type) ==
    IF task_type = "penetration_test" THEN
        << [step |-> 1, name |-> "Network Reconnaissance", agent |-> "network_agent",
            tools |-> <<"nmap_scan", "network_discovery">>, estimated_time |-> 300],
           [step |-> 2, name |-> "Web Assessment", agent |-> "web_agent",
            tools |-> <<"gobuster_directory", "nikto_scan">>, estimated_time |-> 600],
           [step |-> 3, name |-> "Vulnerability Analysis", agent |-> "vulnerability_agent",
            tools |-> <<"sqlmap_test">>, estimated_time |-> 720],
           [step |-> 4, name |-> "Report Generation", agent |-> "report_agent",
            tools |-> <<"generate_report">>, estimated_time |-> 180] >>
    ELSE IF task_type = "network_scan" THEN
        << [step |-> 1, name |-> "Network Discovery", agent |-> "network_agent",
            tools |-> <<"network_discovery", "nmap_scan">>, estimated_time |-> 240] >>
    ELSE IF task_type = "web_assessment" THEN
        << [step |-> 1, name |-> "Web Reconnaissance", agent |-> "web_agent",
            tools |-> <<"gobuster_directory", "web_technology_detection">>,
            estimated_time |-> 360],
           [step |-> 2, name |-> "Vulnerability Scanning", agent |-> "web_agent",
            tools |-> <<"nikto_scan", "sqlmap_test">>, estimated_time |-> 600] >>
    ELSE << >>

\* faulty variant: each agent listed once, in order of first use
CreateExecutionPlan_AgentsOnce(t) ==
    LET plan_steps == PlanSteps(t.task_type)
        firsts == SelectSeq([i \in 1..Len(plan_steps) |-> i],
                            LAMBDA i : \A j \in 1..(i - 1) :
                                          plan_steps[j].agent # plan_steps[i].agent)
    IN [task_id |-> t.id,
        steps |-> plan_steps,
        assigned_agents |-> [k \in 1..Len(firsts) |-> plan_steps[firsts[k]].agent],
        estimated_duration |-> SumTimes(plan_steps)]

\* faulty variant: the agent of a step is kept in assigned_agents only, the step
\* dicts carry no "agent" key
CreateExecutionPlan_StepsWithoutAgent(task) ==
    LET plan_steps == PlanSteps(task.task_type) IN
    [task_id |-> task.id,
     steps |-> [i \in 1..Len(plan_steps) |->
                   [step |-> plan_steps[i].step, name |-> plan_steps[i].name,
                    tools |-> plan_steps[i].tools,
                    estimated_time |-> plan_steps[i].estimated_time]],
     assigned_agents |-> [i \in 1..Len(plan_steps) |-> plan_steps[i].agent],
     estimated_duration |-> SumTimes(plan_steps)]

\* supervisor.py:153-158: the TaskExecutionPlan built from the step table
CreateExecutionPlan(task) ==
    LET plan_steps == PlanSteps(task.task_type) IN
    [task_id |-> task.id,
     steps |-> plan_steps,
     assigned_agents |-> [i \in 1..Len(plan_steps) |-> plan_steps[i].agent],
     estimated_duration |-> SumTimes(plan_steps)]

---------------------------------------------------------------------------
(* Tool collaborator and finding extraction *)

\* ipaddress.ip_address(target) succeeds
IsIpAddress(target) == target \in {"192.168.1.10"}

\* supervisor.py:237-297 _simulate_tool_execution
SimulateToolExecution(tool_name, target) ==
    IF tool_name = "nmap_scan" THEN
        [status |-> "completed", target |-> target,
         hosts |-> << [host |-> target, status |-> "up",
                       ports |-> << [port |-> 22, protocol |-> "tcp",
                                     service |-> "ssh", state |-> "open"],
                                    [port |-> 80, protocol |-> "tcp",
                                     service |-> "http", state |-> "open"],
                                    [port |-> 443, protocol |-> "tcp",
                                     service |-> "https", state |-> "open"] >>] >>]
    ELSE IF tool_name = "network_discovery" THEN
        LET ip == IF IsIpAddress(target) THEN target ELSE "127.0.0.1" IN
        [status |-> "completed", network |-> <<ip, 24>>,
         live_hosts |-> << [ip |-> ip, hostname |-> ip, status |-> "up"] >>,
         total_hosts |-> 1]
    ELSE IF tool_name = "gobuster_directory" THEN
        [status |-> "completed", url |-> <<"http://", target>>,
         discovered_paths |-> << [path |-> "/admin", status_code |-> 200, size |-> 1234],
                                 [path |-> "/login.php", status_code |-> 200, size |-> 567] >>,
         total_found |-> 2]
    ELSE IF tool_name = "nikto_scan" THEN
        [status |-> "completed", url |-> <<"http://", target>>,
         vulnerabilities |-> << [id |-> "OSVDB-3092", msg |-> "Server header found",
                                 severity |-> "info"] >>,
         total_vulnerabilities |-> 1]
    ELSE IF tool_name = "sqlmap_test" THEN
        [status |-> "completed", url |-> <<"http://", target, "/login.php">>,
         injection_points |-> << >>, vulnerable |-> FALSE]
    ELSE
        [status |-> "completed", message |-> <<"Tool ", tool_name, " executed successfully">>]

\* d.get(k, default)
Get(d, k, default) == IF k \in DOMAIN d THEN d[k] ELSE default

RECURSIVE PortFindings(_, _)
\* supervisor.py:309-317
PortFindings(host, ports) ==
    IF ports = << >> THEN << >>
    ELSE LET port == Head(ports) IN
         (IF Get(port, "state", "None") = "open"
          THEN << [type |-> "open_port", host |-> host, port |-> port.port,
                   service |-> Get(port, "service", "unknown"), severity |-> "info"] >>
          ELSE << >>) \o PortFindings(host, Tail(ports))

RECURSIVE HostFindings(_)
\* supervisor.py:307-317
HostFindings(hosts) ==
    IF hosts = << >> THEN << >>
    ELSE PortFindings(Head(hosts).host, Get(Head(hosts), "ports", << >>))
         \o HostFindings(Tail(hosts))

RECURSIVE VulnFindings(_)
\* supervisor.py:320-327
VulnFindings(vulns) ==
    IF vulns = << >> THEN << >>
    ELSE << [type |-> "web_vulnerability",
             description |-> Get(Head(vulns), "msg", ""),
             severity |-> Get(Head(vulns), "severity", "info"),
             reference |-> Get(Head(vulns), "id", "")] >>
         \o VulnFindings(Tail(vulns))

\* faulty variant: every discovered path is reported, whatever its status code
PathFindings_AnyStatus(paths) ==
    [i \in 1..Len(paths) |->
        [type |-> "interesting_path", path |-> paths[i].path,
         status_code |-> paths[i].status_code, severity |-> "info"]]

RECURSIVE PathFindings(_)
\* supervisor.py:330-338
PathFindings(paths) ==
    IF paths = << >> THEN << >>
    ELSE LET path == Head(paths) IN
         (IF Get(path, "status_code", 0) = 200
          THEN << [type |-> "interesting_path", path |-> path.path,
                   status_code |-> path.status_code, severity |-> "info"] >>
          ELSE << >>) \o PathFindings(Tail(paths))

\* supervisor.py:304-338: the findings of one {tool, result} pair
ResultFindings(result) ==
    (IF "hosts" \in DOMAIN result THEN HostFindings(result.hosts) ELSE << >>)
    \o (IF "vulnerabilities" \in DOMAIN result
        THEN VulnFindings(result.vulnerabilities) ELSE << >>)
    \o (IF "discovered_paths" \in DOMAIN result
        THEN PathFindings(result.discovered_paths) ELSE << >>)

RECURSIVE ExtractFindingsFromResults(_)
\* supervisor.py:299-340 _extract_findings_from_results
ExtractFindingsFromResults(tool_results) ==
    IF tool_results = << >> THEN << >>
    ELSE ResultFindings(Get(Head(tool_results), "result", << >>))
         \o ExtractFindingsFromResults(Tail(tool_results))

---------------------------------------------------------------------------
(* Inputs *)

\* The texts submitted through process_user_request.
TxtPentestScan ==
    <<"P","e","n","T","e","s","t"," ","a","n","d"," ","s","c","a","n">>
TxtScan == <<"S","c","a","n"," ","n","e","t">>
TxtWeb == <<"t","e","s","t"," ","W","E","B">>
TxtCheck == <<"c","h","e","c","k">>

\* The `parameters` dicts of the callers (cli/main.py:371, api/routers/network.py:88):
\* without target, or with one
NoParameters == << >>
WithTarget(target) == [target |-> target]

\* The (request, parameters) pairs submitted through process_user_request
Requests ==
    { <<TxtPentestScan, WithTarget("demo.testfire.net")>>,
      <<TxtScan, WithTarget("192.168.1.10")>>,
      <<TxtWeb, NoParameters>>,
      <<TxtCheck, NoParameters>> }

\* datetime.now() differences (supervisor.py:176, 197): what the clock gives
Durations == {0}

\* Step dicts of hand-built plans (tests/test_supervisor_agent.py:95, 248) and
\* one without the keys supervisor.py:172 reads
HandSteps ==
    { [step |-> 1, name |-> "Network Discovery", agent |-> "network_agent",
       tools |-> <<"network_discovery">>, estimated_time |-> 240],
      [step |-> 1, name |-> "Test Step"],
      [agent |-> "network_agent", tools |-> <<"nmap_scan">>] }

RECURSIVE SeqsUpTo(_, _)
\* all sequences over S of length at most n
SeqsUpTo(S, n) ==
    IF n = 0 THEN { << >> }
    ELSE LET shorter == SeqsUpTo(S, n - 1) IN
         shorter \cup { Append(q, x) : q \in shorter, x \in S }

\* task_type values of hand-built Tasks whose plan comes from the planner
DirectTaskTypes == {"penetration_test", "network_scan", "web_assessment",
                    "general_assessment", "custom_type"}

\* core.py:211-229 Task(...) as the direct callers build it: no learning_context
HandTask(task_type) ==
    [id |-> 0,
     description |-> << >>,
     task_type |-> task_type,
     status |-> "pending",
     priority |-> "MEDIUM",
     target |-> "localhost",
     execution_plan |-> NoPlan,
     performance_metrics |-> DefaultMetrics,
     learning_context |-> NoContext]

\* The hand-built Tasks: no plan, or a hand-built plan
HandBuiltTasks ==
    { HandTask("network_scan") }
    \cup { [HandTask("network_scan") EXCEPT !.execution_plan =
               << [task_id |-> 0, steps |-> ss,
                   assigned_agents |-> [i \in 1..Len(ss) |-> Get(ss[i], "agent", "test")],
                   estimated_duration |-> 60] >>] :
           ss \in SeqsUpTo(HandSteps, MaxHandSteps) \ { << >> } }

\* The hand-built Tasks given the planner's plan
PlannedTasks ==
    { [HandTask(ty) EXCEPT !.execution_plan = << CreateExecutionPlan(HandTask(ty)) >>] :
      ty \in DirectTaskTypes }

---------------------------------------------------------------------------
(* State *)

\* supervisor.py:162 the fresh `results` dict
EmptyResults ==
    [steps_completed |-> << >>, findings |-> << >>, errors |-> << >>,
     execution_time |-> 0]

NoStepResult == [status |-> "none"]

NoResponse == [kind |-> "none"]

\* no algorithm object has been built on its own
NoAlgorithm == [name |-> "none"]

\* SupervisorAgent.__init__ (supervisor.py:23-32), nothing called yet
InitSupervisor ==
    /\ active_tasks = << >>
    /\ handTask = << >>
    /\ completed_tasks = << >>
    /\ history = [a \in Agents |-> << >>]
    /\ adapted = [g \in Algorithms |-> 0]
    /\ insights = << >>
    /\ pc = "idle"
    /\ entry = "none"
    /\ cur = 0
    /\ results = EmptyResults
    /\ stepIdx = 0
    /\ toolIdx = 0
    /\ step_results = << >>
    /\ step_result = NoStepResult
    /\ toolLog = << >>
    /\ plannerBuilt = {}
    /\ learnLog = << >>
    /\ response = NoResponse
    /\ suspended = {}

\* no PatternRecognition object has been built, no call made on one
NoPatterns ==
    /\ recognizer = NoAlgorithm
    /\ patternLog = << >>

Init ==
    /\ InitSupervisor
    /\ ga = NoAlgorithm
    /\ qagent = NoAlgorithm
    /\ NoPatterns

\* the Task object the coroutine in flight (or the last one) works on
task == IF entry = "_execute_plan" THEN handTask[1] ELSE active_tasks[cur]

HasPlan(t) == t.execution_plan # NoPlan

plan == task.execution_plan[1]

\* faulty variant: every iteration of the loop runs the last step of the plan
step_Last == plan.steps[Len(plan.steps)]

\* supervisor.py:170: the step dict of the current iteration
step == plan.steps[stepIdx]

FreshRun ==
    /\ results' = EmptyResults
    /\ stepIdx' = 0
    /\ toolIdx' = 0
    /\ step_results' = << >>
    /\ step_result' = NoStepResult
    /\ toolLog' = << >>

\* a write through the reference `task`
SetTask(t) ==
    IF entry = "_execute_plan"
    THEN handTask' = << t >> /\ UNCHANGED active_tasks
    ELSE active_tasks' = [active_tasks EXCEPT ![cur] = t] /\ UNCHANGED handTask

---------------------------------------------------------------------------
(* Entry points *)

\* supervisor.py:61-72 process_user_request up to the call of _execute_plan
ProcessUserRequest(request, parameters) ==
    /\ pc = "idle"
    /\ Len(active_tasks) < MaxRequests
    /\ LET id == Len(active_tasks) + 1
           t == AnalyzeAndCreateTask(id, request, parameters)
       IN /\ active_tasks' =
                 Append(active_tasks, [t EXCEPT !.execution_plan = <<CreateExecutionPlan(t)>>])
          /\ plannerBuilt' = (plannerBuilt \ {0}) \cup {id}
          /\ cur' = id
    /\ handTask' = << >>
    /\ entry' = "process_user_request"
    /\ pc' = "execute_plan"
    /\ response' = NoResponse
    /\ FreshRun
    /\ UNCHANGED learnVars
    /\ UNCHANGED <<suspended, mlVars>>

\* tests/test_supervisor_agent.py:234-360: _execute_plan called on a hand-built Task;
\* fromPlanner: its plan was obtained from _create_execution_plan (lines 175-228)
DirectExecutePlan(t, fromPlanner) ==
    /\ pc = "idle"
    /\ Len(active_tasks) < MaxRequests
    /\ handTask' = << t >>
    /\ plannerBuilt' = (plannerBuilt \ {0}) \cup (IF fromPlanner THEN {0} ELSE {})
    /\ cur' = t.id
    /\ entry' = "_execute_plan"
    /\ pc' = "execute_plan"
    /\ response' = NoResponse
    /\ FreshRun
    /\ UNCHANGED <<active_tasks, learnVars>>
    /\ UNCHANGED <<suspended, mlVars>>

---------------------------------------------------------------------------
(* _execute_plan and _execute_step *)

\* supervisor.py:166-167: no plan attached, return the error dict at once
NoPlanResult == [error |-> "No execution plan available"]

\* faulty variant: the early return marks the Task FAILED
NoPlanTask_Failed(t) == [t EXCEPT !.status = "failed"]

\* supervisor.py:166-167: what the early return leaves of the Task
NoPlanTask(t) == t

ReturnNoPlan ==
    /\ pc = "execute_plan"
    /\ ~HasPlan(task)
    /\ entry = "_execute_plan"
    /\ SetTask(NoPlanTask(task))
    /\ response' = [kind |-> "_execute_plan", results |-> NoPlanResult]
    /\ pc' = "idle"
    /\ UNCHANGED <<learnVars, entry, cur, plannerBuilt, runVars>>
    /\ UNCHANGED <<suspended, mlVars>>

\* supervisor.py:162-170: results and start_time set, the loop over the steps entered
BeginPlan ==
    /\ pc = "execute_plan"
    /\ HasPlan(task)
    /\ pc' = "loop"
    /\ stepIdx' = 1
    /\ results' = EmptyResults
    /\ UNCHANGED <<active_tasks, handTask, learnVars, entry, cur, plannerBuilt, response,
                   toolIdx, step_results, step_result, toolLog>>
    /\ UNCHANGED <<suspended, mlVars>>

\* The key whose lookup raises KeyError in supervisor.py:172 (step, name) or
\* supervisor.py:216-217 (agent, tools), in the order the code reads them
MissingKey(s) ==
    IF "step" \notin DOMAIN s THEN "step"
    ELSE IF "name" \notin DOMAIN s THEN "name"
    ELSE IF "agent" \notin DOMAIN s THEN "agent"
    ELSE IF "tools" \notin DOMAIN s THEN "tools"
    ELSE "None"

\* supervisor.py:171-172, 214-220: the next step is started, _execute_step is entered
StartStep ==
    /\ pc = "loop"
    /\ stepIdx <= Len(plan.steps)
    /\ MissingKey(step) = "None"
    /\ pc' = "tools"
    /\ toolIdx' = 1
    /\ step_results' = << >>
    /\ step_result' = NoStepResult
    /\ UNCHANGED <<active_tasks, handTask, learnVars, entry, cur, plannerBuilt, response,
                   results, stepIdx, toolLog>>
    /\ UNCHANGED <<suspended, mlVars>>

\* faulty variant: the except clause records the error but leaves the status alone
FatalAbort_StatusKept(t, res, message) ==
    [task |-> t,
     results |-> [res EXCEPT !.errors =
                     Append(@, [error |-> <<"Execution failed: ", message>>])]]

\* supervisor.py:193-195: the except clause of _execute_plan
FatalAbort(t, res, message) ==
    [task |-> [t EXCEPT !.status = "failed"],
     results |-> [res EXCEPT !.errors =
                     Append(@, [error |-> <<"Execution failed: ", message>>])]]

\* supervisor.py:172/216-217 raise KeyError outside the try of _execute_step: it
\* escapes to the except clause of _execute_plan and the loop is left
StepRaises ==
    /\ pc = "loop"
    /\ stepIdx <= Len(plan.steps)
    /\ MissingKey(step) # "None"
    /\ LET a == FatalAbort(task, results, MissingKey(step)) IN
         /\ SetTask(a.task)
         /\ results' = a.results
    /\ pc' = "finish"
    /\ UNCHANGED <<learnVars, entry, cur, plannerBuilt, response, stepIdx, toolIdx,
                   step_results, step_result, toolLog>>
    /\ UNCHANGED <<suspended, mlVars>>

\* supervisor.py:223-225: the awaited tool call returns its result
ToolReturns ==
    /\ pc = "tools"
    /\ toolIdx <= Len(step.tools)
    /\ LET tool_name == step.tools[toolIdx] IN
         /\ step_results' = Append(step_results,
               [tool |-> tool_name,
                result |-> SimulateToolExecution(tool_name, task.target)])
         /\ toolLog' = Append(toolLog, tool_name)
    /\ toolIdx' = toolIdx + 1
    /\ UNCHANGED <<active_tasks, handTask, learnVars, pc, entry, cur, plannerBuilt,
                   response, results, stepIdx, step_result>>
    /\ UNCHANGED <<suspended, mlVars>>

\* faulty variant: the error dict reports the tools that had returned
StepError_KeepsTools(s, message) ==
    [status |-> "error", agent |-> s.agent, error |-> message,
     tools_executed |-> step_results]

\* supervisor.py:234-235: the except clause of _execute_step
StepError(s, message) == [status |-> "error", agent |-> s.agent, error |-> message]

\* supervisor.py:224, 234-235: the awaited tool call raises (the collaborator fails,
\* tests/test_supervisor_agent.py:403); _execute_step returns the error dict
ToolRaises ==
    /\ pc = "tools"
    /\ toolIdx <= Len(step.tools)
    /\ toolLog' = Append(toolLog, step.tools[toolIdx])
    /\ step_result' = StepError(step, "Tool execution failed")
    /\ pc' = "record"
    /\ UNCHANGED <<active_tasks, handTask, learnVars, entry, cur, plannerBuilt, response,
                   results, stepIdx, toolIdx, step_results>>
    /\ UNCHANGED <<suspended, mlVars>>

\* supervisor.py:227-232: the dict _execute_step returns when every tool returned
StepCompleted(s, tool_results) ==
    [status |-> "completed", agent |-> s.agent, tools_executed |-> tool_results,
     findings |-> ExtractFindingsFromResults(tool_results)]

ReturnStep ==
    /\ pc = "tools"
    /\ toolIdx > Len(step.tools)
    /\ step_result' = StepCompleted(step, step_results)
    /\ pc' = "record"
    /\ UNCHANGED <<active_tasks, handTask, learnVars, entry, cur, plannerBuilt, response,
                   results, stepIdx, toolIdx, step_results, toolLog>>
    /\ UNCHANGED <<suspended, mlVars>>

\* faulty variant: a step that ended in error is recorded, its error is not
RecordStepResult_ErrorDropped(res, s, sr, duration) ==
    [res EXCEPT
        !.steps_completed = Append(@, sr @@ [execution_time |-> duration]),
        !.findings = IF "findings" \in DOMAIN sr THEN @ \o sr.findings ELSE @]

\* supervisor.py:176-189: the step's result, findings and error go into `results`
RecordStepResult(res, s, sr, duration) ==
    [res EXCEPT
        !.steps_completed = Append(@, sr @@ [execution_time |-> duration]),
        !.findings = IF "findings" \in DOMAIN sr THEN @ \o sr.findings ELSE @,
        !.errors = IF Get(sr, "status", "None") = "error"
                   THEN Append(@, [step |-> s.step,
                                   error |-> Get(sr, "error", "Unknown error")])
                   ELSE @]

RecordStep ==
    /\ pc = "record"
    /\ \E step_duration \in Durations :
           results' = RecordStepResult(results, step, step_result, step_duration)
    /\ stepIdx' = stepIdx + 1
    /\ pc' = "loop"
    /\ UNCHANGED <<active_tasks, handTask, learnVars, entry, cur, plannerBuilt, response,
                   toolIdx, step_results, step_result, toolLog>>
    /\ UNCHANGED <<suspended, mlVars>>

\* faulty variant: success_rate weighted by the share of steps without error
RunMetrics_Weighted(res, total_time) ==
    [execution_time |-> total_time,
     success_rate |-> IF res.steps_completed = << >> THEN 100
                      ELSE (100 * (Len(res.steps_completed) - Len(res.errors)))
                           \div Len(res.steps_completed),
     accuracy |-> 90,
     error_count |-> Len(res.errors),
     confidence_score |-> 80]

\* supervisor.py:204-210: the PerformanceMetrics of the run
RunMetrics(res, total_time) ==
    [execution_time |-> total_time,
     success_rate |-> IF res.errors = << >> THEN 100 ELSE 0,
     accuracy |-> 90,
     error_count |-> Len(res.errors),
     confidence_score |-> 80]

\* supervisor.py:200-202: the status _execute_plan leaves on the Task
StatusAfterPlan(t, res) == IF res.errors = << >> THEN "completed" ELSE t.status

\* supervisor.py:197-212: after the loop, or after the except clause
FinishPlan ==
    /\ \/ pc = "finish"
       \/ pc = "loop" /\ stepIdx > Len(plan.steps)
    /\ \E total_time \in Durations :
         /\ results' = [results EXCEPT !.execution_time = total_time]
         /\ SetTask([task EXCEPT !.status = StatusAfterPlan(task, results),
                                 !.performance_metrics = RunMetrics(results, total_time)])
    /\ pc' = "executed"
    /\ UNCHANGED <<learnVars, entry, cur, plannerBuilt, response, stepIdx, toolIdx,
                   step_results, step_result, toolLog>>
    /\ UNCHANGED <<suspended, mlVars>>

\* the direct caller of _execute_plan receives `results`
ReturnResults ==
    /\ pc = "executed"
    /\ entry = "_execute_plan"
    /\ response' = [kind |-> "_execute_plan", results |-> results]
    /\ pc' = "idle"
    /\ UNCHANGED <<active_tasks, handTask, learnVars, entry, cur, plannerBuilt, runVars>>
    /\ UNCHANGED <<suspended, mlVars>>

---------------------------------------------------------------------------
(* process_user_request after _execute_plan, and _learn_from_execution *)

\* faulty variant: a run that recorded errors asks for adaptation
StatusAfterRequest_Adaptation(t, res) ==
    LET status_flag == Get(res, "status", "None") IN
    IF status_flag = "completed" THEN "completed"
    ELSE IF status_flag = "failed" THEN "failed"
    ELSE IF res.errors # << >> THEN "requires_adaptation"
    ELSE t.status

\* supervisor.py:73-79: the Task status derived from results.get("status")
StatusAfterRequest(t, res) ==
    LET status_flag == Get(res, "status", "None") IN
    IF status_flag = "completed" THEN "completed"
    ELSE IF status_flag = "failed" THEN "failed"
    ELSE t.status

\* faulty variant: the trim keeps the oldest records
AppendTrim_KeepOldest(performance_history, performance) ==
    LET appended == Append(performance_history, performance) IN
    IF Len(appended) > HistoryLimit
    THEN SubSeq(appended, 1, HistoryLimit)
    ELSE appended

\* faulty variant: the record is appended and nothing is dropped
AppendTrim_NoTrim(performance_history, performance) ==
    Append(performance_history, performance)

\* supervisor.py:369-373: append, then keep the last HistoryLimit records
AppendTrim(performance_history, performance) ==
    LET appended == Append(performance_history, performance) IN
    IF Len(appended) > HistoryLimit
    THEN SubSeq(appended, Len(appended) - HistoryLimit + 1, Len(appended))
    ELSE appended

\* faulty variant: only the agents with a specialised state are updated
LearnHistory_NetworkOnly(h, performance) ==
    [a \in Agents |-> IF a = "network_agent" THEN AppendTrim(h[a], performance) ELSE h[a]]

\* supervisor.py:367-373: the loop over every registered AgentState
LearnHistory(h, performance) ==
    [a \in Agents |-> AppendTrim(h[a], performance)]

\* faulty variant: every registered algorithm is adapted when a context is given
LearnAdapted_All(ad, t) ==
    [g \in Algorithms |-> IF t.learning_context # NoContext THEN ad[g] + 1 ELSE ad[g]]

\* supervisor.py:361-364: adapt() on the algorithms the Task's learning_context names
LearnAdapted(ad, t) ==
    [g \in Algorithms |-> IF t.learning_context # NoContext /\ t.learning_context = g
                          THEN ad[g] + 1 ELSE ad[g]]

\* supervisor.py:363: what adapt() returns; the algorithm objects of the supervisor
\* are collaborators here, the result of the n-th adapt() call on one is told
\* from the others by n
AdaptResult(g, n) == [algorithm |-> g, call |-> n]

\* supervisor.py:364: learning_insights[f"{algorithm_name}_latest"] = adaptation_result
LearnInsights(ins, ad, t) ==
    LET written == { <<g, "_latest">> : g \in {x \in Algorithms : t.learning_context = x} }
    IN [k \in DOMAIN ins \cup written |->
           IF k \in written THEN AdaptResult(k[1], ad[k[1]] + 1) ELSE ins[k]]

\* supervisor.py:342-375 _learn_from_execution
LearnFromExecution(t) ==
    /\ adapted' = LearnAdapted(adapted, t)
    /\ insights' = LearnInsights(insights, adapted, t)
    /\ history' = LearnHistory(history, t.performance_metrics)
    /\ learnLog' = Append(learnLog, t.performance_metrics)

\* supervisor.py:84-89: the dict process_user_request returns
RequestResponse(t, res) ==
    [kind |-> "process_user_request",
     task_id |-> t.id,
     status |-> t.status,
     results |-> res,
     performance |-> t.performance_metrics]

\* supervisor.py:73-89: status, learning, and the return to the caller
CompleteRequest ==
    /\ pc = "executed"
    /\ entry = "process_user_request"
    /\ LET t == [task EXCEPT !.status = StatusAfterRequest(task, results)] IN
         /\ SetTask(t)
         /\ LearnFromExecution(t)
         /\ response' = RequestResponse(t, results)
    /\ pc' = "idle"
    /\ UNCHANGED <<completed_tasks, entry, cur, plannerBuilt, runVars>>
    /\ UNCHANGED <<suspended, mlVars>>

---------------------------------------------------------------------------
(* Specification: requests and direct calls on one supervisor, one at a time *)

Next ==
    \/ \E r \in Requests : ProcessUserRequest(r[1], r[2])
    \/ \E t \in HandBuiltTasks : DirectExecutePlan(t, FALSE)
    \/ \E t \in PlannedTasks : DirectExecutePlan(t, TRUE)
    \/ ReturnNoPlan
    \/ BeginPlan
    \/ StartStep
    \/ StepRaises
    \/ ToolReturns
    \/ ToolRaises
    \/ ReturnStep
    \/ RecordStep
    \/ FinishPlan
    \/ ReturnResults
    \/ CompleteRequest

Spec == Init /\ [][Next]_vars

---------------------------------------------------------------------------
(* Properties of plan execution *)

\* _execute_plan has run to its return statement on a Task with a plan, and the
\* locals of the run are still at hand
RunFinished ==
    \/ pc = "executed"
    \/ pc = "idle" /\ response.kind # "none" /\ "errors" \in DOMAIN response.results

\* the entries of `errors` made by the loop (supervisor.py:186) and by the except
\* clause (supervisor.py:194)
StepLevelErrors(res) == SelectSeq(res.errors, LAMBDA e : "step" \in DOMAIN e)
TopLevelErrors(res) == SelectSeq(res.errors, LAMBDA e : "step" \notin DOMAIN e)

\* the recorded steps in which a tool call raised
ErrorSteps(res) == SelectSeq(res.steps_completed, LAMBDA sr : sr.status = "error")

Aborted(res) == TopLevelErrors(res) # << >>

RECURSIVE ToolCount(_)
\* the number of tool names the well-formed steps of a step list carry
ToolCount(steps) ==
    IF steps = << >> THEN 0
    ELSE Len(Get(Head(steps), "tools", << >>)) + ToolCount(Tail(steps))

\* C1: when process_user_request returns, the Task is COMPLETED if the run's error
\* list is empty and FAILED otherwise, and the status string returned says the same.
C1_StatusFollowsErrors ==
    response.kind = "process_user_request" =>
        LET t == active_tasks[response.task_id]
            expected == IF response.results.errors = << >> THEN "completed" ELSE "failed"
        IN t.status = expected /\ response.status = expected

\* C2: a tool call that raises is caught and recorded as one step-level error, and
\* the loop goes on: when the run ends without an exception having escaped a step,
\* every step of the plan is in steps_completed; the error list is not empty, the
\* success rate is 0.0 and the Task is not COMPLETED.
C2_ToolFailureIsStepError ==
    (RunFinished /\ ErrorSteps(results) # << >>) =>
        /\ Len(StepLevelErrors(results)) = Len(ErrorSteps(results))
        /\ \A i \in 1..Len(StepLevelErrors(results)) :
               StepLevelErrors(results)[i].error = "Tool execution failed"
        /\ Len(results.errors) >= 1
        /\ task.performance_metrics.success_rate = 0
        /\ task.status # "completed"
        /\ ~Aborted(results) => Len(results.steps_completed) = Len(plan.steps)

\* a run in which the tool of the first step raised and the second step completed
C2_Witness ==
    /\ RunFinished
    /\ Len(results.steps_completed) >= 2
    /\ results.steps_completed[1].status = "error"
    /\ results.steps_completed[2].status = "completed"
    /\ Len(toolLog) >= 2

\* C3: when an exception escapes step execution no later step is executed, exactly
\* one top-level error is appended (after the step-level ones), the failing step is
\* not in steps_completed, and the Task is FAILED.
C3_FatalAbort ==
    (RunFinished /\ Aborted(results)) =>
        /\ Len(TopLevelErrors(results)) = 1
        /\ results.errors[Len(results.errors)] = TopLevelErrors(results)[1]
        /\ TopLevelErrors(results)[1].error[1] = "Execution failed: "
        /\ stepIdx <= Len(plan.steps)
        /\ MissingKey(plan.steps[stepIdx]) # "None"
        /\ Len(results.steps_completed) = stepIdx - 1
        /\ Len(toolLog) <= ToolCount(SubSeq(plan.steps, 1, stepIdx - 1))
        /\ task.status = "failed"

\* an abort at the first step of a plan whose second step is well-formed
C3_Witness ==
    /\ RunFinished
    /\ Aborted(results)
    /\ stepIdx = 1
    /\ Len(plan.steps) = 2
    /\ MissingKey(plan.steps[2]) = "None"
    /\ toolLog = << >>

\* C4: after _execute_plan on a Task with a plan, success_rate is 1.0 if the error
\* list is empty and 0.0 otherwise, error_count is the length of the error list,
\* accuracy is 0.9 and confidence_score is 0.8.
C4_MetricsOfRun ==
    RunFinished =>
        LET m == task.performance_metrics IN
        /\ (results.errors = << >>) => m.success_rate = 100
        /\ (results.errors # << >>) => m.success_rate = 0
        /\ m.error_count = Len(results.errors)
        /\ m.accuracy = 90
        /\ m.confidence_score = 80

\* a run that ended with two errors
C4_Witness ==
    /\ RunFinished
    /\ Len(results.errors) = 2
    /\ task.performance_metrics.error_count = 2

\* C6: a Task goes PENDING -> IN_PROGRESS -> {COMPLETED, FAILED}: it is IN_PROGRESS
\* while the steps of its plan are being executed (so that COMPLETED and FAILED are
\* reached from IN_PROGRESS only).
C6_InProgressWhileExecuting ==
    pc \in {"loop", "tools", "record"} => task.status = "in_progress"

\* C8: a plan built by the planner carries the Task's id, the exact sum of its
\* steps' estimated times (1800 for the four steps of penetration_test, 0 for the
\* empty plan of a type the planner does not know) and the agent of each step in
\* step order, duplicates kept.
PlannerBuiltTasks ==
    { active_tasks[i] : i \in (plannerBuilt \ {0}) }
    \cup (IF 0 \in plannerBuilt THEN { handTask[1] } ELSE {})

RECURSIVE EstimateOfFirst(_, _)
\* the estimated times of the first n steps, added up
EstimateOfFirst(steps, n) ==
    IF n = 0 THEN 0 ELSE EstimateOfFirst(steps, n - 1) + steps[n].estimated_time

C8_PlanTotals ==
    \A t \in PlannerBuiltTasks :
        LET p == t.execution_plan[1]
            n == Len(p.steps)
            known == {"penetration_test", "network_scan", "web_assessment"}
        IN /\ p.task_id = t.id
           /\ Len(p.assigned_agents) = n
           /\ \A i \in 1..n : p.assigned_agents[i] = p.steps[i].agent
           /\ p.estimated_duration = EstimateOfFirst(p.steps, n)
           /\ t.task_type = "penetration_test" => n = 4 /\ p.estimated_duration = 1800
           /\ t.task_type = "network_scan" => n = 1 /\ p.estimated_duration = 240
           /\ t.task_type = "web_assessment"
                  => /\ n = 2 /\ p.estimated_duration = 960
                     /\ p.assigned_agents = <<"web_agent", "web_agent">>
           /\ t.task_type \notin known => n = 0 /\ p.estimated_duration = 0

\* the planner was given a Task of a type it has no steps for, and one of a request
C8_Witness ==
    /\ 0 \in plannerBuilt
    /\ handTask[1].task_type = "custom_type"
    /\ handTask[1].execution_plan[1].steps = << >>
    /\ \E i \in plannerBuilt \ {0} : active_tasks[i].task_type = "web_assessment"

\* C9: _execute_plan on a Task without a plan returns the 'No execution plan
\* available' result at once: no tool is called and the Task is left as it was.
C9_NoPlanLeavesTask ==
    [][ (pc = "execute_plan" /\ ~HasPlan(task)) =>
            /\ pc' = "idle"
            /\ response' = [kind |-> "_execute_plan",
                            results |-> [error |-> "No execution plan available"]]
            /\ handTask' = handTask
            /\ active_tasks' = active_tasks
            /\ toolLog' = toolLog /\ toolLog = << >> ]_vars

\* the error result was returned for a Task still PENDING with default metrics
C9_Witness ==
    /\ pc = "idle"
    /\ response = [kind |-> "_execute_plan",
                   results |-> [error |-> "No execution plan available"]]
    /\ handTask[1].execution_plan = NoPlan
    /\ handTask[1].status = "pending"
    /\ handTask[1].performance_metrics = DefaultMetrics

\* the requests whose process_user_request call has returned
FinishedRequests ==
    IF entry = "process_user_request" /\ pc # "idle"
    THEN Len(active_tasks) - 1 ELSE Len(active_tasks)

\* C10: for every request, learning runs exactly once before the result is returned
\* and appends the Task's performance_metrics to the history of all six agents;
\* all histories are equal at every point.
C10_LearnOncePerRequest ==
    /\ Len(learnLog) = FinishedRequests
    /\ \A i \in 1..FinishedRequests : learnLog[i] = active_tasks[i].performance_metrics
    /\ Cardinality(Agents) = 6
    /\ \A a \in Agents : history[a] = learnLog
    /\ \A a, b \in Agents : history[a] = history[b]

\* two requests have returned, the second with errors in a plan that does not
\* use the forensic agent
C10_Witness ==
    /\ response.kind = "process_user_request"
    /\ Len(active_tasks) = 2
    /\ response.results.errors # << >>
    /\ \A i \in 1..Len(active_tasks[2].execution_plan[1].assigned_agents) :
           active_tasks[2].execution_plan[1].assigned_agents[i] # "forensic_agent"
    /\ Len(history["forensic_agent"]) = 2
    /\ history["forensic_agent"][2].error_count >= 1

---------------------------------------------------------------------------
(* Specification: _learn_from_execution called directly, as
   tests/test_supervisor_agent.py:681-744 does *)

\* tests/test_supervisor_agent.py:726-732 and a run that had an error
LearnMetrics ==
    { [execution_time |-> 30, success_rate |-> 100, accuracy |-> 95,
       error_count |-> 0, confidence_score |-> 90],
      [execution_time |-> 30, success_rate |-> 0, accuracy |-> 95,
       error_count |-> 1, confidence_score |-> 90] }

FailedRuns(log) == Len(SelectSeq(log, LAMBDA perf : perf.error_count > 0))

\* tests/test_supervisor_agent.py:735-739: await supervisor._learn_from_execution(task, results)
DirectLearn(performance) ==
    /\ pc = "idle"
    /\ Len(learnLog) < HistoryLimit + ExtraLearnCalls
    /\ performance.error_count > 0 => FailedRuns(learnLog) < MaxFailedRuns
    /\ LET t == [HandTask("network_scan") EXCEPT !.performance_metrics = performance] IN
         /\ handTask' = << t >>
         /\ LearnFromExecution(t)
    /\ response' = [kind |-> "_learn_from_execution"]
    /\ UNCHANGED <<active_tasks, completed_tasks, pc, entry, cur, plannerBuilt, runVars>>
    /\ UNCHANGED <<suspended, mlVars>>

NextLearn == \E performance \in LearnMetrics : DirectLearn(performance)

SpecLearn == Init /\ [][NextLearn]_vars

\* C5: after the k-th learn() call every agent's history has min(k, 50) entries:
\* the most recent min(k, 50) records given to learn(), in arrival order.
C5_HistoryIsLastFifty ==
    \A a \in Agents :
        LET k == Len(learnLog)
            n == IF k < 50 THEN k ELSE 50
        IN /\ Len(history[a]) = n
           /\ \A i \in 1..n : history[a][i] = learnLog[k - n + i]

\* 52 calls were made, the second with an error record, which every history dropped
C5_Witness ==
    /\ Len(learnLog) = 52
    /\ learnLog[2].error_count = 1
    /\ \A a \in Agents :
           /\ Len(history[a]) = 50
           /\ \A i \in 1..50 : history[a][i].error_count = 0

---------------------------------------------------------------------------
(* Specification: _analyze_and_create_task called directly, as
   tests/test_supervisor_agent.py:114-169 does *)

FrPentestUpper == <<"P","E","N","T","E","S","T">>
FrPen == <<"p","e","n">>
FrTest == <<"t","e","s","t">>
FrPenetration == <<"P","e","n","e","t","r","a","t","i","o","n">>
FrSpaceTest == <<" ","T","e","s","t">>
FrScan == <<"s","c","a","n">>
FrS == <<"S">>
FrCan == <<"c","a","n">>
FrRecon == <<"R","E","C","O","N">>
FrWeb == <<"W","e","b">>
FrCheck == <<"c","h","e","c","k"," ">>

\* The pieces request texts are put together from
Fragments ==
    { FrPentestUpper, FrPen, FrTest, FrPenetration, FrSpaceTest, FrScan, FrS, FrCan,
      FrRecon, FrWeb, FrCheck }

RECURSIVE Concat(_)
Concat(pieces) == IF pieces = << >> THEN << >> ELSE Head(pieces) \o Concat(Tail(pieces))

ClassifyTexts == { Concat(pieces) : pieces \in SeqsUpTo(Fragments, MaxFragments) }

ClassifyParameters == { NoParameters, WithTarget("example.com") }

\* await supervisor._analyze_and_create_task(request, parameters), on a supervisor
\* nothing else was called on
AnalyzeRequest(request, parameters) ==
    /\ pc = "idle"
    /\ response = NoResponse
    /\ handTask' = << AnalyzeAndCreateTask(0, request, parameters) >>
    /\ response' = [kind |-> "_analyze_and_create_task"]
    /\ UNCHANGED <<active_tasks, learnVars, pc, entry, cur, plannerBuilt, runVars>>
    /\ UNCHANGED <<suspended, mlVars>>

NextClassify ==
    \E request \in ClassifyTexts, parameters \in ClassifyParameters :
        AnalyzeRequest(request, parameters)

SpecClassify == Init /\ [][NextClassify]_vars

\* the keyword occurs in the text once its letters are folded to lower case
Mentions(text, kw) ==
    \E i \in 1..(Len(text) - Len(kw) + 1) :
        LowerText(SubSeq(text, i, i + Len(kw) - 1)) = kw

\* C7: classification is total and first match wins on the lower-cased text:
\* 'pentest' or 'penetration test' gives penetration_test/HIGH whatever else the
\* text holds; else 'scan' or 'recon' gives network_scan/MEDIUM; else 'web' gives
\* web_assessment/MEDIUM; every other text, the empty one included, gives
\* general_assessment/MEDIUM.
C7_ClassificationCascade ==
    response.kind = "_analyze_and_create_task" =>
        LET t == handTask[1]
            text == t.description
            pentest == Mentions(text, KwPentest) \/ Mentions(text, KwPenetrationTest)
            scan == Mentions(text, KwScan) \/ Mentions(text, KwRecon)
            web == Mentions(text, KwWeb)
        IN /\ pentest => t.task_type = "penetration_test" /\ t.priority = "HIGH"
           /\ (~pentest /\ scan) => t.task_type = "network_scan" /\ t.priority = "MEDIUM"
           /\ (~pentest /\ ~scan /\ web)
                  => t.task_type = "web_assessment" /\ t.priority = "MEDIUM"
           /\ (~pentest /\ ~scan /\ ~web)
                  => t.task_type = "general_assessment" /\ t.priority = "MEDIUM"
           /\ t.status = "pending"

\* an upper-case PENTEST followed by scan was classified penetration_test/HIGH
C7_Witness ==
    /\ response.kind = "_analyze_and_create_task"
    /\ handTask[1].description = FrPentestUpper \o FrScan
    /\ handTask[1].task_type = "penetration_test"
    /\ handTask[1].priority = "HIGH"

---------------------------------------------------------------------------
(* Specification: _learn_from_execution called directly on Tasks with and without
   a learning_context, as tests/test_supervisor_agent.py:615-679 does *)

\* core.py:91 names "neural_network" as an algorithm_type; the supervisor registers
\* no algorithm of that name
LearnContexts == {NoContext} \cup Algorithms \cup {"neural_network"}

\* tests/test_supervisor_agent.py:620-648: the Task is built with the context and
\* the metrics, then given to _learn_from_execution
DirectLearnInContext(context, performance) ==
    /\ pc = "idle"
    /\ Len(learnLog) < MaxContextCalls
    /\ LET t == [HandTask("network_scan") EXCEPT !.learning_context = context,
                                                 !.performance_metrics = performance] IN
         /\ handTask' = << t >>
         /\ LearnFromExecution(t)
    /\ response' = [kind |-> "_learn_from_execution"]
    /\ UNCHANGED <<active_tasks, completed_tasks, pc, entry, cur, plannerBuilt, runVars>>
    /\ UNCHANGED <<suspended, mlVars>>

NextLearnContext ==
    \E context \in LearnContexts, performance \in LearnMetrics :
        DirectLearnInContext(context, performance)

SpecLearnContext == Init /\ [][NextLearnContext]_vars

\* C11: a learn() call adapts exactly once the registered algorithm the Task's
\* learning_context names and stores that call's result under the algorithm's
\* key; the other algorithms and the other stored results stay as they were;
\* with no context, or a context naming no registered algorithm, nothing is
\* adapted or stored, and learn returns all the same.
C11_AdaptsNamedAlgorithmOnly ==
    [][ learnLog' # learnLog =>
          LET context == handTask'[1].learning_context IN
          /\ response'.kind = "_learn_from_execution"
          /\ \A g \in Algorithms :
                 /\ adapted'[g] = adapted[g] + (IF context = g THEN 1 ELSE 0)
                 /\ context = g =>
                        /\ <<g, "_latest">> \in DOMAIN insights'
                        /\ insights'[<<g, "_latest">>] = AdaptResult(g, adapted'[g])
                 /\ context # g =>
                        IF <<g, "_latest">> \in DOMAIN insights
                        THEN /\ <<g, "_latest">> \in DOMAIN insights'
                             /\ insights'[<<g, "_latest">>] = insights[<<g, "_latest">>]
                        ELSE <<g, "_latest">> \notin DOMAIN insights'
          /\ DOMAIN insights' \subseteq { <<g, "_latest">> : g \in Algorithms }
      ]_vars

\* three learn() calls were made: one on a fuzzy_logic Task, which adapted that
\* algorithm alone, the last on a Task whose context names no registered algorithm
C11_Witness ==
    /\ Len(learnLog) = 3
    /\ adapted = [g \in Algorithms |-> IF g = "fuzzy_logic" THEN 1 ELSE 0]
    /\ DOMAIN insights = { <<"fuzzy_logic", "_latest">> }
    /\ handTask[1].learning_context = "neural_network"
    /\ response.kind = "_learn_from_execution"

---------------------------------------------------------------------------
(* Order of the tool calls of one run *)

\* the tools a step called, given how it ended: all of them when it completed, the
\* listed ones up to the one that raised when it ended in error
CalledBy(s, outcome, called) ==
    IF outcome = "completed" THEN called = s.tools
    ELSE \E n \in 1..Len(s.tools) : called = SubSeq(s.tools, 1, n)

RECURSIVE RanInOrder(_, _, _)
\* log is, step after step, what the recorded steps called
RanInOrder(log, steps, recorded) ==
    IF steps = << >> THEN log = << >>
    ELSE \E n \in 0..Len(log) :
            /\ CalledBy(Head(steps), Head(recorded).status, SubSeq(log, 1, n))
            /\ RanInOrder(SubSeq(log, n + 1, Len(log)), Tail(steps), Tail(recorded))

\* what the step in progress has called so far
CalledByCurrent(called) ==
    IF pc = "tools" THEN called = SubSeq(step.tools, 1, toolIdx - 1)
    ELSE IF pc = "record" THEN CalledBy(step, step_result.status, called)
    ELSE called = << >>

\* C12: at every point of a run the tool calls made so far are the calls of the
\* recorded steps in plan order, each step's tools in their listed order (a step
\* that failed stops at the tool that raised), followed by the calls the step in
\* progress has made; no tool of a later step comes before them.
C12_ToolsInPlanOrder ==
    (pc \in {"loop", "tools", "record", "finish", "executed"}) =>
        LET done == Len(results.steps_completed) IN
        /\ pc \in {"loop", "tools", "record"} => done = stepIdx - 1
        /\ \E k \in 0..Len(toolLog) :
              /\ CalledByCurrent(SubSeq(toolLog, k + 1, Len(toolLog)))
              /\ RanInOrder(SubSeq(toolLog, 1, k), SubSeq(plan.steps, 1, done),
                            results.steps_completed)

\* a penetration test in its third step: the first step failed at its first tool,
\* the second ran both of its tools, the third has made its call
C12_Witness ==
    /\ pc = "tools"
    /\ entry = "process_user_request"
    /\ task.task_type = "penetration_test"
    /\ stepIdx = 3
    /\ results.steps_completed[1].status = "error"
    /\ results.steps_completed[2].status = "completed"
    /\ toolLog = <<"nmap_scan", "gobuster_directory", "nikto_scan", "sqlmap_test">>

---------------------------------------------------------------------------
(* Specification: process_user_request coroutines running concurrently on the one
   supervisor of get_supervisor (api/dependencies.py:14-29), on one event loop.
   A coroutine gives up the loop only at the awaited call into the tool
   collaborator (supervisor.py:224); everything between two such calls runs
   without another coroutine in between. *)

\* the frame of the coroutine that has the event loop
RunningContext ==
    [pc |-> pc, entry |-> entry, cur |-> cur, results |-> results, stepIdx |-> stepIdx,
     toolIdx |-> toolIdx, step_results |-> step_results, step_result |-> step_result,
     toolLog |-> toolLog]

\* supervisor.py:224: the coroutine waits for the tool call and the loop is free
AwaitTool ==
    /\ pc = "tools"
    /\ entry = "process_user_request"
    /\ toolIdx <= Len(step.tools)
    /\ suspended' = suspended \cup {RunningContext}
    /\ pc' = "idle"
    /\ entry' = "none"
    /\ cur' = 0
    /\ FreshRun
    /\ UNCHANGED <<active_tasks, handTask, learnVars, plannerBuilt, response, mlVars>>

\* the event loop takes up a waiting coroutine again: its tool call is over
ResumeTool(c) ==
    /\ pc = "idle"
    /\ c \in suspended
    /\ suspended' = suspended \ {c}
    /\ pc' = c.pc
    /\ entry' = c.entry
    /\ cur' = c.cur
    /\ results' = c.results
    /\ stepIdx' = c.stepIdx
    /\ toolIdx' = c.toolIdx
    /\ step_results' = c.step_results
    /\ step_result' = c.step_result
    /\ toolLog' = c.toolLog
    /\ UNCHANGED <<active_tasks, handTask, learnVars, plannerBuilt, response, mlVars>>

\* the metrics record of a run without errors among LearnMetrics
CleanRunMetrics == CHOOSE performance \in LearnMetrics : performance.error_count = 0

\* what the supervisor learned before the first request came in
PriorLearn ==
    /\ active_tasks = << >>
    /\ DirectLearn(CleanRunMetrics)

\* the requests submitted concurrently: one whose plan calls tools, one whose
\* plan has no step
ConcurrentRequests ==
    { <<TxtScan, WithTarget("192.168.1.10")>>, <<TxtCheck, NoParameters>> }

NextConcurrent ==
    \/ PriorLearn
    \/ \E r \in ConcurrentRequests : ProcessUserRequest(r[1], r[2])
    \/ BeginPlan
    \/ StartStep
    \/ AwaitTool
    \/ \E c \in suspended : ResumeTool(c)
    \/ ToolReturns
    \/ ToolRaises
    \/ ReturnStep
    \/ RecordStep
    \/ FinishPlan
    \/ CompleteRequest

SpecConcurrent == Init /\ [][NextConcurrent]_vars

\* ids of the requests whose coroutine has not returned yet
InFlight == { c.cur : c \in suspended } \cup (IF pc = "idle" THEN {} ELSE {cur})

\* C13: under every interleaving of request coroutines that switch at tool calls,
\* learning is atomic: the genetic algorithm was adapted once per finished request,
\* the records learned are those of the earlier learn calls plus one per finished
\* request, and every agent history is the last min(n, 50) of the n records
\* learned, never longer than 50.
C13_LearningIsAtomic ==
    LET finished == Len(active_tasks) - Cardinality(InFlight)
        n == Len(learnLog)
        kept == IF n < 50 THEN n ELSE 50
    IN /\ Cardinality(InFlight) = Cardinality(suspended) + (IF pc = "idle" THEN 0 ELSE 1)
       /\ adapted["genetic_algorithm"] = finished
       /\ Len(SelectSeq(learnLog, LAMBDA r : r # CleanRunMetrics)) = finished
       /\ \A a \in Agents :
              /\ Len(history[a]) = kept
              /\ Len(history[a]) <= 50
              /\ \A i \in 1..kept : history[a][i] = learnLog[n - kept + i]

\* two requests ran interleaved on a supervisor that had learned 50 records: the
\* second one, without errors, finished before the first one, which had an error
C13_Witness ==
    /\ pc = "idle"
    /\ suspended = {}
    /\ Len(active_tasks) = 2
    /\ Len(learnLog) = 52
    /\ active_tasks[1].performance_metrics.error_count = 1
    /\ active_tasks[2].performance_metrics.error_count = 0
    /\ learnLog[51] = active_tasks[2].performance_metrics
    /\ learnLog[52] = active_tasks[1].performance_metrics
    /\ \A a \in Agents : Len(history[a]) = 50 /\ history[a][50] = learnLog[52]

---------------------------------------------------------------------------
(* Records of the Tasks *)

\* supervisor.py:377-386 get_system_status: the two task counts
GetSystemStatus ==
    [active_tasks |-> Len(active_tasks), completed_tasks |-> Len(completed_tasks)]

\* C14: no Task leaves the supervisor's records, and a Task whose request has
\* returned is in completed_tasks, so that the completed_tasks count of
\* get_system_status is the number of finished requests.
C14_FinishedTasksArchived ==
    /\ \A i \in 1..Len(active_tasks) : active_tasks[i].id = i
    /\ \A i \in 1..FinishedRequests :
           \E k \in 1..Len(completed_tasks) : completed_tasks[k].id = i
    /\ GetSystemStatus.completed_tasks = FinishedRequests

---------------------------------------------------------------------------
(* Specification: _extract_findings_from_results called directly, as
   tests/test_supervisor_agent.py:537-609 does *)

\* {tool, result} pairs: the shapes of the tests, with ports that are not open,
\* entries without the optional keys, paths of other status codes, a result with
\* none of the three keys and a pair without result
ToolResultPairs ==
    { [tool |-> "nmap_scan",
       result |-> [hosts |-> << [host |-> "192.168.1.1",
                                 ports |-> << [port |-> 22, service |-> "ssh", state |-> "open"],
                                              [port |-> 23, service |-> "telnet", state |-> "closed"],
                                              [port |-> 80, service |-> "http", state |-> "open"],
                                              [port |-> 443, state |-> "open"] >>] >>,
                   discovered_paths |-> << [path |-> "/backup", status_code |-> 403,
                                            size |-> 278] >>]],
      [tool |-> "nmap_scan",
       result |-> [hosts |-> << [host |-> "10.0.0.1",
                                 ports |-> << [port |-> 8080, state |-> "filtered"] >>],
                                [host |-> "10.0.0.2"],
                                [host |-> "10.0.0.3",
                                 ports |-> << [port |-> 21, service |-> "ftp",
                                               state |-> "open"] >>] >>]],
      [tool |-> "nikto_scan",
       result |-> [vulnerabilities |-> << [id |-> "OSVDB-3092", msg |-> "Server header found",
                                           severity |-> "info"],
                                          [id |-> "CVE-2021-1234", msg |-> "SQL injection",
                                           severity |-> "high"],
                                          [msg |-> "Directory listing"] >>]],
      [tool |-> "gobuster_directory",
       result |-> [discovered_paths |-> << [path |-> "/admin", status_code |-> 200,
                                            size |-> 1234],
                                           [path |-> "/backup", status_code |-> 403,
                                            size |-> 278],
                                           [path |-> "/old", status_code |-> 301],
                                           [path |-> "/login.php", status_code |-> 200] >>,
                   vulnerabilities |-> << [id |-> "X-1", msg |-> "Listing",
                                           severity |-> "medium"] >>]],
      [tool |-> "sqlmap_test", result |-> [injection_points |-> << >>, vulnerable |-> FALSE]],
      [tool |-> "unknown_tool"] }

\* findings = supervisor._extract_findings_from_results(step_results), on a
\* supervisor nothing else was called on
ExtractFindings(tool_results) ==
    /\ pc = "idle"
    /\ response = NoResponse
    /\ response' = [kind |-> "_extract_findings_from_results",
                    step_results |-> tool_results,
                    findings |-> ExtractFindingsFromResults(tool_results)]
    /\ UNCHANGED <<active_tasks, handTask, learnVars, pc, entry, cur, plannerBuilt, runVars>>
    /\ UNCHANGED <<suspended, mlVars>>

NextFindings ==
    \E tool_results \in SeqsUpTo(ToolResultPairs, MaxToolResults) :
        ExtractFindings(tool_results)

SpecFindings == Init /\ [][NextFindings]_vars

RECURSIVE Flatten(_)
\* the sequences of a sequence, one after the other
Flatten(seqs) == IF seqs = << >> THEN << >> ELSE Head(seqs) \o Flatten(Tail(seqs))

\* what the claim asks of one host: a finding per open port
OpenPortsOf(h) ==
    LET ports == IF "ports" \in DOMAIN h THEN h.ports ELSE << >>
        open == SelectSeq(ports, LAMBDA q : "state" \in DOMAIN q /\ q.state = "open")
    IN [i \in 1..Len(open) |->
           [type |-> "open_port", host |-> h.host, port |-> open[i].port,
            service |-> IF "service" \in DOMAIN open[i] THEN open[i].service ELSE "unknown",
            severity |-> "info"]]

\* what the claim asks of one {tool, result} pair
ExpectedOfPair(pair) ==
    LET r == IF "result" \in DOMAIN pair THEN pair.result ELSE << >>
        hosts == IF "hosts" \in DOMAIN r THEN r.hosts ELSE << >>
        vulns == IF "vulnerabilities" \in DOMAIN r THEN r.vulnerabilities ELSE << >>
        paths == IF "discovered_paths" \in DOMAIN r THEN r.discovered_paths ELSE << >>
        ok == SelectSeq(paths, LAMBDA q : "status_code" \in DOMAIN q /\ q.status_code = 200)
    IN Flatten([i \in 1..Len(hosts) |-> OpenPortsOf(hosts[i])])
       \o [i \in 1..Len(vulns) |->
              [type |-> "web_vulnerability",
               description |-> IF "msg" \in DOMAIN vulns[i] THEN vulns[i].msg ELSE "",
               severity |-> IF "severity" \in DOMAIN vulns[i] THEN vulns[i].severity
                            ELSE "info",
               reference |-> IF "id" \in DOMAIN vulns[i] THEN vulns[i].id ELSE ""]]
       \o [i \in 1..Len(ok) |->
              [type |-> "interesting_path", path |-> ok[i].path,
               status_code |-> 200, severity |-> "info"]]

\* C15: the findings of a list of {tool, result} pairs are, pair after pair in
\* list order: one open_port finding (severity info) per open port of each host,
\* one web_vulnerability finding per vulnerability (severity of the entry, info
\* by default), one interesting_path finding per path of status code 200; ports
\* that are not open and paths of other status codes give nothing.
C15_FindingsExtracted ==
    response.kind = "_extract_findings_from_results" =>
        LET pairs == response.step_results
            found == response.findings
        IN /\ found = Flatten([i \in 1..Len(pairs) |-> ExpectedOfPair(pairs[i])])
           /\ \A i \in 1..Len(found) :
                  /\ found[i].type \in {"open_port", "web_vulnerability", "interesting_path"}
                  /\ found[i].type = "interesting_path" => found[i].status_code = 200
                  /\ found[i].type # "web_vulnerability" => found[i].severity = "info"

\* a result with three open ports, a closed one and a path of status 403 gave
\* three open_port findings and no interesting_path finding
C15_Witness ==
    /\ response.kind = "_extract_findings_from_results"
    /\ Len(response.step_results) = 1
    /\ response.step_results[1].tool = "nmap_scan"
    /\ "discovered_paths" \in DOMAIN response.step_results[1].result
    /\ Len(response.findings) = 3
    /\ \A i \in 1..3 : response.findings[i].type = "open_port"
    /\ response.findings[3].service = "unknown"

---------------------------------------------------------------------------
(* GeneticAlgorithm and Individual (ml_algorithms.py:108-205), an object built and
   driven on its own as tests/test_ml_algorithms.py does.  Genes are multiples of
   1/GeneUnit, rates are hundredths, a fitness is kept as 4 * GeneUnit times its
   float value, so that (speed_gene + accuracy_gene) / 2.0 with the default 0.5
   stays an integer. *)

\* ml_algorithms.py:128-134 GeneticAlgorithm.__init__
GeneticAlgorithm(parameters) ==
    [name |-> "genetic_algorithm",
     population_size |-> Get(parameters, "population_size", 20),
     mutation_rate |-> Get(parameters, "mutation_rate", 10),
     gene_count |-> Get(parameters, "gene_count", 5),
     population |-> << >>,
     generation |-> 0,
     i |-> 0]

\* the parameters the objects are built with; mutation_rate 0.0, 0.5 and 1.0
MutationRates == {0, 50, 100}

GeneticParameters ==
    [population_size : 0..MaxPopulation, mutation_rate : MutationRates,
     gene_count : 0..MaxGenes]

\* ml_algorithms.py:109-112 Individual(genes): fitness defaults to 0.0
Individual(genes) == [genes |-> genes, fitness |-> 0]

\* random.random(): a float of [0.0, 1.0)
RandomUnit == 0..(GeneUnit - 1)

\* random.gauss(0, 0.1): any float, small or large, of either sign
GaussOffsets == {0 - (GeneUnit + 1), 0 - 1, 1, GeneUnit + 1}

\* faulty variant: the gene is capped at 1.0 only
Clamp_TopOnly(x) == IF x > GeneUnit THEN GeneUnit ELSE x

\* ml_algorithms.py:119 max(0.0, min(1.0, x))
Clamp(x) ==
    LET capped == IF x > GeneUnit THEN GeneUnit ELSE x
    IN IF capped < 0 THEN 0 ELSE capped

\* ml_algorithms.py:117-119: what one gene can become in mutate(mutation_rate);
\* random.random() < mutation_rate never holds for a rate <= 0 and always for a
\* rate >= 1
MutatedGene(x, mutation_rate) ==
    (IF mutation_rate < 100 THEN {x} ELSE {})
    \cup (IF mutation_rate > 0 THEN { Clamp(x + d) : d \in GaussOffsets } ELSE {})

RECURSIVE Mutate(_, _)
\* ml_algorithms.py:114-119 Individual.mutate: the gene lists it can leave
Mutate(genes, mutation_rate) ==
    IF genes = << >> THEN { << >> }
    ELSE { <<x>> \o rest : x \in MutatedGene(Head(genes), mutation_rate),
                            rest \in Mutate(Tail(genes), mutation_rate) }

RECURSIVE RandomGenes(_)
\* ml_algorithms.py:140 [random.random() for _ in range(gene_count)]
RandomGenes(gene_count) ==
    IF gene_count = 0 THEN { << >> }
    ELSE { Append(genes, x) : genes \in RandomGenes(gene_count - 1), x \in RandomUnit }

\* ml_algorithms.py:136-141 initialize_population: the populations it can build
InitializePopulation(g) ==
    { [k \in 1..g.population_size |-> Individual(pick[k])] :
      pick \in [1..g.population_size -> RandomGenes(g.gene_count)] }

\* ml_algorithms.py:143-152 fitness_function
FitnessFunction(genes) ==
    LET speed_gene == IF Len(genes) > 0 THEN 2 * genes[1] ELSE GeneUnit
        accuracy_gene == IF Len(genes) > 1 THEN 2 * genes[2] ELSE GeneUnit
    IN speed_gene + accuracy_gene

\* faulty variant: the sort is ascending, x goes behind every element whose fitness
\* is at most its own
InsertByFitness_Ascending(sorted, x) ==
    LET ahead == { k \in 1..Len(sorted) : sorted[k].fitness <= x.fitness }
        n == Cardinality(ahead)
    IN SubSeq(sorted, 1, n) \o <<x>> \o SubSeq(sorted, n + 1, Len(sorted))

\* x goes behind every element whose fitness is at least its own
InsertByFitness(sorted, x) ==
    LET ahead == { k \in 1..Len(sorted) : sorted[k].fitness >= x.fitness }
        n == Cardinality(ahead)
    IN SubSeq(sorted, 1, n) \o <<x>> \o SubSeq(sorted, n + 1, Len(sorted))

RECURSIVE SortByFitness(_)
\* ml_algorithms.py:164 population.sort(key=fitness, reverse=True): stable
SortByFitness(population) ==
    IF population = << >> THEN << >>
    ELSE InsertByFitness(SortByFitness(SubSeq(population, 1, Len(population) - 1)),
                         population[Len(population)])

\* ml_algorithms.py:172-174: the children one loop iteration can append
Offspring(survivors, mutation_rate) ==
    UNION { { Individual(genes) : genes \in Mutate(survivors[k].genes, mutation_rate) } :
            k \in 1..Len(survivors) }

\* faulty variant: as many children are made as there are survivors
OffspringNeeded_Half(population_size, survivors) == Len(survivors)

\* ml_algorithms.py:171 while len(new_population) < self.population_size: the
\* number of iterations
OffspringNeeded(population_size, survivors) ==
    IF population_size > Len(survivors) THEN population_size - Len(survivors) ELSE 0

\* ml_algorithms.py:154-178 evolve_generation: the object it can leave, and the
\* exception that escapes it, if any
EvolveGeneration(g) ==
    UNION {
      LET scored == [k \in 1..Len(start) |->
                        [start[k] EXCEPT !.fitness = FitnessFunction(start[k].genes)]]
          sorted == SortByFitness(scored)
          cut == g.population_size \div 2
          survivors == SubSeq(sorted, 1, IF cut < Len(sorted) THEN cut ELSE Len(sorted))
          missing == OffspringNeeded(g.population_size, survivors)
      IN IF missing > 0 /\ survivors = << >>
         THEN { [ga |-> [g EXCEPT !.population = sorted], raised |-> "IndexError"] }
         ELSE { [ga |-> [g EXCEPT !.population = survivors \o children,
                                  !.generation = @ + 1],
                 raised |-> "None"] :
                children \in [1..missing -> Offspring(survivors, g.mutation_rate)] }
      : start \in (IF g.population = << >> THEN InitializePopulation(g)
                   ELSE {g.population}) }

\* ml_algorithms.py:191 max(self.population, key=fitness): the first of the fittest
BestIndividual(population) ==
    LET top == CHOOSE k \in 1..Len(population) :
                   /\ \A j \in 1..Len(population) :
                          population[j].fitness <= population[k].fitness
                   /\ \A j \in 1..(k - 1) : population[j].fitness < population[k].fitness
    IN population[top]

\* ga.evolve_generation(context) called by the user of the object
EvolveCall ==
    /\ pc = "idle"
    /\ ga.name = "genetic_algorithm"
    /\ ga.generation < MaxGenerations
    /\ \E out \in EvolveGeneration(ga) :
         /\ ga' = out.ga
         /\ response' = [kind |-> "evolve_generation", raised |-> out.raised]
    /\ UNCHANGED <<active_tasks, handTask, learnVars, pc, entry, cur, plannerBuilt,
                   runVars, suspended, qagent, recognizer, patternLog>>

\* ml_algorithms.py:180-188: adapt is entered, its loop has made no call yet
AdaptCall ==
    /\ pc = "idle"
    /\ ga.name = "genetic_algorithm"
    /\ ga.generation + 5 <= MaxGenerations
    /\ pc' = "adapt"
    /\ ga' = [ga EXCEPT !.i = 0]
    /\ response' = NoResponse
    /\ UNCHANGED <<active_tasks, handTask, learnVars, entry, cur, plannerBuilt,
                   runVars, suspended, qagent, recognizer, patternLog>>

\* ml_algorithms.py:188-189: one evolve_generation call of the loop of adapt; an
\* exception it raises ends adapt
AdaptEvolve ==
    /\ pc = "adapt"
    /\ ga.name = "genetic_algorithm"
    /\ ga.i < 5
    /\ \E out \in EvolveGeneration(ga) :
         IF out.raised = "None"
         THEN /\ ga' = [out.ga EXCEPT !.i = @ + 1]
              /\ UNCHANGED <<pc, response>>
         ELSE /\ ga' = [out.ga EXCEPT !.i = 0]
              /\ pc' = "idle"
              /\ response' = [kind |-> "adapt", algorithm |-> "genetic_algorithm",
                              raised |-> out.raised]
    /\ UNCHANGED <<active_tasks, handTask, learnVars, entry, cur, plannerBuilt,
                   runVars, suspended, qagent, recognizer, patternLog>>

\* ml_algorithms.py:191-198: the best individual is looked up and the result returned;
\* max() of an empty population raises ValueError
AdaptReturn ==
    /\ pc = "adapt"
    /\ ga.name = "genetic_algorithm"
    /\ ga.i = 5
    /\ ga' = [ga EXCEPT !.i = 0]
    /\ pc' = "idle"
    /\ response' =
          IF ga.population = << >>
          THEN [kind |-> "adapt", algorithm |-> "genetic_algorithm",
                raised |-> "ValueError"]
          ELSE [kind |-> "adapt", algorithm |-> "genetic_algorithm", raised |-> "None",
                best_strategy |-> BestIndividual(ga.population).genes,
                fitness |-> BestIndividual(ga.population).fitness,
                generation |-> ga.generation]
    /\ UNCHANGED <<active_tasks, handTask, learnVars, entry, cur, plannerBuilt,
                   runVars, suspended, qagent, recognizer, patternLog>>

InitGenetic ==
    /\ InitSupervisor
    /\ ga \in { GeneticAlgorithm(parameters) : parameters \in GeneticParameters }
    /\ qagent = NoAlgorithm
    /\ NoPatterns

NextGenetic ==
    \/ EvolveCall
    \/ AdaptCall
    \/ AdaptEvolve
    \/ AdaptReturn

SpecGenetic == InitGenetic /\ [][NextGenetic]_vars

\* C16: whatever population_size the object was built with, once adapt() or
\* evolve_generation() has been called the population holds population_size
\* individuals after every call, however many were made.
C16_PopulationSizeKept ==
    (pc = "idle" /\ response.kind \in {"adapt", "evolve_generation"}) =>
        Len(ga.population) = ga.population_size

\* a second adapt() call has returned on an object of population_size 3
C16_Witness ==
    /\ pc = "idle"
    /\ response.kind = "adapt"
    /\ response.raised = "None"
    /\ ga.generation = 10
    /\ ga.population_size = 3
    /\ Len(ga.population) = 3

\* C17: every gene of every individual of the population lies within [0, 1], after
\* the population was initialised and after every mutation, generation and
\* adapt() call, for every mutation rate and every offset drawn.
C17_GenesWithinUnit ==
    ga.name = "genetic_algorithm" =>
        \A k \in 1..Len(ga.population) :
            \A j \in 1..Len(ga.population[k].genes) :
                /\ ga.population[k].genes[j] >= 0
                /\ ga.population[k].genes[j] <= GeneUnit

\* adapt() has returned on an object that mutates every gene of every child, and
\* the population holds an individual with one gene at 0.0 and one at 1.0
C17_Witness ==
    /\ pc = "idle"
    /\ response.kind = "adapt"
    /\ ga.mutation_rate = 100
    /\ \E k \in 1..Len(ga.population) : ga.population[k].genes = <<0, GeneUnit>>

---------------------------------------------------------------------------
(* QLearningAgent (ml_algorithms.py:208-272), an object built and driven on its own
   as tests/test_ml_algorithms.py does.  epsilon is kept in ten-thousandths (0.3 is
   3000, 0.01 is 100), products are rounded down to that grid; success rates and
   rewards are hundredths. *)

\* ml_algorithms.py:214-220 QLearningAgent.__init__
QLearningAgent(parameters) ==
    [name |-> "q_learning",
     learning_rate |-> Get(parameters, "learning_rate", 10),
     discount_factor |-> Get(parameters, "discount_factor", 90),
     epsilon |-> Get(parameters, "epsilon", 1000),
     q_table |-> << >>,
     reward_history |-> << >>]

\* the parameter dicts of tests/test_ml_algorithms.py:343-406, 449, 472: no epsilon
\* (the supervisor's own, supervisor.py:30), 0.2, 0.0, 0.5 and 1.0
QParameters ==
    { [learning_rate |-> 10] }
    \cup { [epsilon |-> e] : e \in {2000, 0, 5000, 10000} }

\* PerformanceMetrics.success_rate values given to adapt: 0.0, 0.5, 0.6, 1.0
SuccessRates == {0, 50, 60, 100}

\* ml_algorithms.py:255-258: the epsilon adapt leaves
AdaptEpsilon(epsilon, success_rate) ==
    IF success_rate < 60
    THEN (IF (epsilon * 11) \div 10 < 3000 THEN (epsilon * 11) \div 10 ELSE 3000)
    ELSE (IF (epsilon * 9) \div 10 > 100 THEN (epsilon * 9) \div 10 ELSE 100)

RECURSIVE SumOf(_)
SumOf(values) == IF values = << >> THEN 0 ELSE Head(values) + SumOf(Tail(values))

\* ml_algorithms.py:264 np.mean(self.reward_history[-10:]), kept as the sum and the
\* number of the rewards averaged; 0.0 for an empty history
AverageReward(reward_history) ==
    LET n == Len(reward_history)
        last == SubSeq(reward_history, IF n > 10 THEN n - 9 ELSE 1, n)
    IN IF reward_history = << >> THEN [sum |-> 0, count |-> 1]
       ELSE [sum |-> SumOf(last), count |-> Len(last)]

\* ml_algorithms.py:249-265 QLearningAgent.adapt
QAdapt(success_rate) ==
    /\ pc = "idle"
    /\ qagent.name = "q_learning"
    /\ Len(qagent.reward_history) < MaxQAdapts
    /\ LET reward == success_rate - 50
           after == [qagent EXCEPT
                        !.reward_history = Append(@, reward),
                        !.epsilon = AdaptEpsilon(@, success_rate)]
       IN /\ qagent' = after
          /\ response' = [kind |-> "adapt", algorithm |-> "q_learning", raised |-> "None",
                          q_table_size |-> Cardinality(DOMAIN after.q_table),
                          epsilon |-> after.epsilon,
                          average_reward |-> AverageReward(after.reward_history)]
    /\ UNCHANGED <<active_tasks, handTask, learnVars, pc, entry, cur, plannerBuilt,
                   runVars, suspended, ga, recognizer, patternLog>>

InitQLearning ==
    /\ InitSupervisor
    /\ ga = NoAlgorithm
    /\ qagent \in { QLearningAgent(parameters) : parameters \in QParameters }
    /\ NoPatterns

NextQLearning == \E success_rate \in SuccessRates : QAdapt(success_rate)

SpecQLearning == InitQLearning /\ [][NextQLearning]_vars

\* C18: once adapt() has been called on a QLearningAgent, whatever epsilon it was
\* built with and whatever the success rates given, epsilon is within [0.01, 0.3].
C18_EpsilonWithinLimits ==
    (qagent.name = "q_learning" /\ qagent.reward_history # << >>) =>
        /\ qagent.epsilon >= 100
        /\ qagent.epsilon <= 3000

---------------------------------------------------------------------------
(* PatternRecognition._calculate_similarity (ml_algorithms.py:314-336).  A feature
   mapping is a function from its keys to values tagged with their python type;
   strings are sequences of characters, numbers are integers, a float result is
   kept as the fraction it stands for, in lowest terms. *)

StrValue(text) == [type |-> "str", value |-> text]
NumValue(n) == [type |-> "number", value |-> n]
\* a list such as [22, 80, 443] (tests/test_ml_algorithms.py:524)
ListValue(items) == [type |-> "list", value |-> items]
NoneValue == [type |-> "NoneType"]

\* the keys feature mappings are built over, in a fixed order
FeatureKeys == <<"type", "port", "ports">>

\* the values a feature can have: strings that differ in case only or altogether,
\* numbers, a list, None
FeatureValues ==
    { StrValue(FrScan), StrValue(<<"S", "C", "A", "N">>), StrValue(FrWeb),
      NumValue(80), NumValue(8080), ListValue(<<22, 80, 443>>), NoneValue }

\* the feature mappings over the first MaxFeatures keys, the empty one included
FeatureMappings ==
    UNION { [keys -> FeatureValues] :
            keys \in SUBSET { FeatureKeys[k] : k \in 1..MaxFeatures } }

Abs(x) == IF x < 0 THEN 0 - x ELSE x

Largest(x, y) == IF x < y THEN y ELSE x

RECURSIVE Gcd(_, _)
Gcd(x, y) == IF y = 0 THEN x ELSE Gcd(y, x % y)

\* the fraction num/den (den > 0) in lowest terms
Fraction(num, den) ==
    LET g == Gcd(Abs(num), den) IN [num |-> num \div g, den |-> den \div g]

AddFractions(x, y) == Fraction(x.num * y.den + y.num * x.den, x.den * y.den)

\* faulty variant: strings are compared as they are, case included
KeyScores_CaseSensitive(val1, val2) ==
    IF val1.type = "str" /\ val2.type = "str"
    THEN << IF val1.value = val2.value THEN Fraction(1, 1) ELSE Fraction(0, 1) >>
    ELSE IF val1.type = "number" /\ val2.type = "number"
    THEN LET max_val == Largest(Largest(Abs(val1.value), Abs(val2.value)), 1)
             diff == Abs(val1.value - val2.value)
         IN << IF diff < max_val THEN Fraction(max_val - diff, max_val)
               ELSE Fraction(0, 1) >>
    ELSE << >>

\* ml_algorithms.py:325-334: the scores one common key appends to similarity_scores:
\* one for two strings, one for two numbers, none otherwise
KeyScores(val1, val2) ==
    IF val1.type = "str" /\ val2.type = "str"
    THEN << IF LowerText(val1.value) = LowerText(val2.value)
            THEN Fraction(1, 1) ELSE Fraction(0, 1) >>
    ELSE IF val1.type = "number" /\ val2.type = "number"
    THEN LET max_val == Largest(Largest(Abs(val1.value), Abs(val2.value)), 1)
             diff == Abs(val1.value - val2.value)
         IN << IF diff < max_val THEN Fraction(max_val - diff, max_val)
               ELSE Fraction(0, 1) >>
    ELSE << >>

RECURSIVE SumFractions(_)
SumFractions(scores) ==
    IF scores = << >> THEN Fraction(0, 1)
    ELSE AddFractions(Head(scores), SumFractions(Tail(scores)))

\* ml_algorithms.py:314-336 _calculate_similarity
CalculateSimilarity(data1, data2) ==
    LET common_keys == DOMAIN data1 \cap DOMAIN data2
        similarity_scores ==
            Flatten([k \in 1..Len(FeatureKeys) |->
                        IF FeatureKeys[k] \in common_keys
                        THEN KeyScores(data1[FeatureKeys[k]], data2[FeatureKeys[k]])
                        ELSE << >>])
        total == SumFractions(similarity_scores)
    IN IF DOMAIN data1 = {} \/ DOMAIN data2 = {} \/ common_keys = {}
          \/ similarity_scores = << >>
       THEN Fraction(0, 1)
       ELSE Fraction(total.num, total.den * Len(similarity_scores))

\* similarity = pr._calculate_similarity(data1, data2), on a fresh object
SimilarityCall(data1, data2) ==
    /\ pc = "idle"
    /\ response = NoResponse
    /\ response' = [kind |-> "_calculate_similarity", data1 |-> data1, data2 |-> data2,
                    similarity |-> CalculateSimilarity(data1, data2)]
    /\ UNCHANGED <<active_tasks, handTask, learnVars, pc, entry, cur, plannerBuilt,
                   runVars, suspended, mlVars>>

NextSimilarity ==
    \E data1 \in FeatureMappings, data2 \in FeatureMappings : SimilarityCall(data1, data2)

SpecSimilarity == Init /\ [][NextSimilarity]_vars

\* C19: the similarity of a non-empty feature mapping with itself is 1.0, whatever
\* the types of its values.
C19_SelfSimilarityIsOne ==
    (/\ response.kind = "_calculate_similarity"
     /\ response.data1 = response.data2
     /\ DOMAIN response.data1 # {})
        => response.similarity = Fraction(1, 1)

---------------------------------------------------------------------------
(* Totality of adapt() *)

\* C20: adapt() returns a result and raises nothing, for every configuration the
\* constructor accepts, a GeneticAlgorithm of population_size 0 or 1 included.
C20_AdaptNeverRaises ==
    response.kind = "adapt" => response.raised = "None"

---------------------------------------------------------------------------
(* Specification: concurrent requests whose tool calls may never return.  The
   await of supervisor.py:224 is a bare `await`: no asyncio.wait_for, no timeout
   argument, and _execute_step takes none from its caller (supervisor.py:214).
   The event loop runs whatever coroutine is ready (weak fairness of its steps);
   requests come in when the callers please. *)

\* supervisor.py:224: the coroutine waits at a tool call that never returns; the
\* frame it leaves behind is marked as waiting for good
ToolNeverReturns ==
    /\ pc = "tools"
    /\ entry = "process_user_request"
    /\ toolIdx <= Len(step.tools)
    /\ suspended' = suspended \cup {[RunningContext EXCEPT !.pc = "never"]}
    /\ pc' = "idle"
    /\ entry' = "none"
    /\ cur' = 0
    /\ FreshRun
    /\ UNCHANGED <<active_tasks, handTask, learnVars, plannerBuilt, response, mlVars>>

\* the waiting coroutines whose tool call comes back
Returning == { c \in suspended : c.pc # "never" }

\* what the event loop does by itself once coroutines exist
EventLoop ==
    \/ BeginPlan
    \/ StartStep
    \/ AwaitTool
    \/ ToolNeverReturns
    \/ \E c \in Returning : ResumeTool(c)
    \/ ToolReturns
    \/ ToolRaises
    \/ ReturnStep
    \/ RecordStep
    \/ FinishPlan
    \/ CompleteRequest

NextTimeout ==
    \/ \E r \in Requests : ProcessUserRequest(r[1], r[2])
    \/ BeginPlan
    \/ StartStep
    \/ AwaitTool
    \/ ToolNeverReturns
    \/ \E c \in Returning : ResumeTool(c)
    \/ ToolReturns
    \/ ToolRaises
    \/ ReturnStep
    \/ RecordStep
    \/ FinishPlan
    \/ CompleteRequest

SpecTimeout == Init /\ [][NextTimeout]_vars /\ WF_vars(EventLoop)

\* C21: every tool call is bounded by a timeout, so a request whose tool call never
\* returns still finishes: each request in flight eventually has returned to its
\* caller (after learning), whatever the tool calls do.
C21_HungCallIsCutOff ==
    \A id \in 1..MaxRequests : (id \in InFlight) ~> (id \notin InFlight)

---------------------------------------------------------------------------
(* Specification: classification and whole requests given parameters in which the
   caller names an algorithm.  _analyze_and_create_task reads one key of
   `parameters`, "target" (supervisor.py:110), and builds the LearningContext from
   literals (supervisor.py:118-121). *)

\* parameters dicts: without and with keys by which a caller would name the
\* algorithm (the field of core.py:91, the field of core.py:229)
OverrideParameters ==
    { NoParameters,
      WithTarget("192.168.1.10"),
      [algorithm_type |-> "q_learning"],
      [target |-> "192.168.1.10", algorithm_type |-> "fuzzy_logic"],
      [learning_context |-> "q_learning"] }

\* the request texts submitted with them: a plan with tools, a plan without steps
OverrideTexts == { TxtScan, TxtCheck }

\* task = await supervisor._analyze_and_create_task(request, parameters); the
\* caller keeps what it passed
AnalyzeWithParameters(request, parameters) ==
    /\ pc = "idle"
    /\ handTask' = << AnalyzeAndCreateTask(0, request, parameters) >>
    /\ response' = [kind |-> "_analyze_and_create_task", parameters |-> parameters]
    /\ UNCHANGED <<active_tasks, learnVars, pc, entry, cur, plannerBuilt, runVars>>
    /\ UNCHANGED <<suspended, mlVars>>

NextOverride ==
    \/ \E request \in OverrideTexts, parameters \in OverrideParameters :
           AnalyzeWithParameters(request, parameters)
    \/ \E request \in OverrideTexts, parameters \in OverrideParameters :
           ProcessUserRequest(request, parameters)
    \/ BeginPlan
    \/ StartStep
    \/ ToolReturns
    \/ ToolRaises
    \/ ReturnStep
    \/ RecordStep
    \/ FinishPlan
    \/ CompleteRequest

SpecOverride == Init /\ [][NextOverride]_vars

\* C22 as stated: the Task built by classification carries the genetic algorithm
\* as its algorithm_type unless the caller names another one, and then it carries
\* the caller's.
C22_CallerOverridesContext ==
    (response.kind = "_analyze_and_create_task" /\ "parameters" \in DOMAIN response) =>
        handTask[1].learning_context =
            Get(response.parameters, "algorithm_type", "genetic_algorithm")

\* C22, amended: every Task built by classification carries the genetic algorithm
\* as its algorithm_type, whatever the caller's parameters hold, and every request
\* submitted through process_user_request adapts the genetic algorithm once and
\* no other algorithm.
C22_ContextIsGenetic ==
    /\ (response.kind = "_analyze_and_create_task" /\ "parameters" \in DOMAIN response) =>
           handTask[1].learning_context = "genetic_algorithm"
    /\ \A i \in 1..Len(active_tasks) :
           active_tasks[i].learning_context = "genetic_algorithm"
    /\ adapted = [g \in Algorithms |->
                     IF g = "genetic_algorithm" THEN FinishedRequests ELSE 0]
    /\ DOMAIN insights \subseteq { <<"genetic_algorithm", "_latest">> }

\* two requests whose parameters named fuzzy_logic and q_learning have returned,
\* and a Task was then classified with parameters naming q_learning
C22_Witness ==
    /\ pc = "idle"
    /\ Len(active_tasks) = 2
    /\ Len(learnLog) = 2
    /\ active_tasks[1].target = "192.168.1.10"
    /\ adapted["genetic_algorithm"] = 2
    /\ response.kind = "_analyze_and_create_task"
    /\ "parameters" \in DOMAIN response
    /\ response.parameters = [algorithm_type |-> "q_learning"]
    /\ handTask[1].learning_context = "genetic_algorithm"

---------------------------------------------------------------------------
(* Statuses of the Tasks *)

\* every Task the supervisor holds or was handed
AllTasks ==
    { active_tasks[i] : i \in 1..Len(active_tasks) }
    \cup { handTask[i] : i \in 1..Len(handTask) }

\* C23: at every point of classification, planning, execution and learning, and
\* whatever the tool calls return or raise, no Task has status CANCELLED or
\* REQUIRES_ADAPTATION: every status is PENDING, COMPLETED or FAILED.
C23_NoCancelledNoAdaptation ==
    \A t \in AllTasks :
        /\ t.status \in TaskStatus
        /\ t.status \notin {"cancelled", "requires_adaptation"}
        /\ t.status \in {"pending", "completed", "failed"}

\* a request whose tool call raised has returned with its Task still PENDING, after
\* an earlier request had completed
C23_Witness ==
    /\ pc = "idle"
    /\ response.kind = "process_user_request"
    /\ Len(active_tasks) = 2
    /\ active_tasks[1].status = "completed"
    /\ active_tasks[2].status = "pending"
    /\ response.results.errors # << >>
    /\ Len(learnLog) = 2

---------------------------------------------------------------------------
(* PatternRecognition (ml_algorithms.py:275-312), an object built and driven on
   its own as tests/test_ml_algorithms.py:521-623 does.  The three dicts are
   functions over the pattern ids they hold; `order` is the order in which the
   ids were first inserted into known_patterns (the order .items() gives).  A
   success rate is the fraction its float stands for. *)

\* ml_algorithms.py:278-281 PatternRecognition.__init__
PatternRecognition ==
    [name |-> "pattern_recognition",
     known_patterns |-> << >>,
     order |-> << >>,
     pattern_frequency |-> << >>,
     pattern_success_rate |-> << >>]

\* the ids and the feature mappings patterns are added with: two that differ in
\* the case of a string and in a number, one with a list value
PatternIds == {"pattern1", "pattern2"}

PatternData ==
    { [type |-> StrValue(FrScan), port |-> NumValue(80)],
      [type |-> StrValue(<<"S", "C", "A", "N">>), port |-> NumValue(8080)],
      [type |-> StrValue(FrWeb), ports |-> ListValue(<<22, 80, 443>>)] }

MultiplyFractions(x, y) == Fraction(x.num * y.num, x.den * y.den)

\* 1.0 if success else 0.0
SuccessValue(success) == Fraction(IF success THEN 1 ELSE 0, 1)

\* faulty variant: the new outcome weighs as much as all the earlier ones together
RunningRate_Unweighted(current_rate, count, success) ==
    LET total == AddFractions(current_rate, SuccessValue(success))
    IN Fraction(total.num, total.den * 2)

\* ml_algorithms.py:291 (current_rate * (count - 1) + (1.0 if success else 0.0)) / count
RunningRate(current_rate, count, success) ==
    LET total == AddFractions(MultiplyFractions(current_rate, Fraction(count - 1, 1)),
                              SuccessValue(success))
    IN Fraction(total.num, total.den * count)

\* d[k] = v on a dict
Put(d, k, v) == [x \in DOMAIN d \cup {k} |-> IF x = k THEN v ELSE d[x]]

\* ml_algorithms.py:283-294 add_pattern
AddPattern(pattern_id, pattern_data, success) ==
    /\ pc = "idle"
    /\ recognizer.name = "pattern_recognition"
    /\ Len(patternLog) < MaxPatternCalls
    /\ LET count == Get(recognizer.pattern_frequency, pattern_id, 0) + 1
           new_rate ==
               IF pattern_id \in DOMAIN recognizer.pattern_success_rate
               THEN RunningRate(recognizer.pattern_success_rate[pattern_id], count, success)
               ELSE SuccessValue(success)
       IN recognizer' =
              [recognizer EXCEPT
                  !.known_patterns = Put(@, pattern_id, pattern_data),
                  !.order = IF pattern_id \in DOMAIN recognizer.known_patterns
                            THEN @ ELSE Append(@, pattern_id),
                  !.pattern_frequency = Put(@, pattern_id, count),
                  !.pattern_success_rate = Put(@, pattern_id, new_rate)]
    /\ patternLog' = Append(patternLog, [pattern_id |-> pattern_id,
                                         pattern_data |-> pattern_data,
                                         success |-> success])
    /\ response' = [kind |-> "add_pattern"]
    /\ UNCHANGED <<active_tasks, handTask, learnVars, pc, entry, cur, plannerBuilt,
                   runVars, suspended, ga, qagent>>

\* the data recognize_pattern is asked about: a mapping of a string and a number,
\* one with a list value
RecognizeData ==
    { [type |-> StrValue(FrScan), port |-> NumValue(80)],
      [type |-> StrValue(FrWeb), ports |-> ListValue(<<22, 80, 443>>)] }

\* similarity_threshold arguments: 0.0, 0.1 and 0.9
Thresholds == { Fraction(0, 1), Fraction(1, 10), Fraction(9, 10) }

\* x >= y on fractions
AtLeast(x, y) == x.num * y.den >= y.num * x.den

\* ml_algorithms.py:311 the sort key x["similarity"] * x["success_rate"]
MatchKey(match) == MultiplyFractions(match.similarity, match.success_rate)

\* x goes behind every element whose key is at least its own
InsertMatch(sorted, x) ==
    LET ahead == { k \in 1..Len(sorted) : AtLeast(MatchKey(sorted[k]), MatchKey(x)) }
        n == Cardinality(ahead)
    IN SubSeq(sorted, 1, n) \o <<x>> \o SubSeq(sorted, n + 1, Len(sorted))

RECURSIVE SortMatches(_)
\* ml_algorithms.py:311 matches.sort(key=..., reverse=True): stable
SortMatches(matches) ==
    IF matches = << >> THEN << >>
    ELSE InsertMatch(SortMatches(SubSeq(matches, 1, Len(matches) - 1)),
                     matches[Len(matches)])

\* ml_algorithms.py:296-312 recognize_pattern: the list it returns
RecognizePatternResult(r, data, similarity_threshold) ==
    LET candidates ==
            [k \in 1..Len(r.order) |->
                [pattern_id |-> r.order[k],
                 similarity |-> CalculateSimilarity(data, r.known_patterns[r.order[k]]),
                 frequency |-> r.pattern_frequency[r.order[k]],
                 success_rate |-> r.pattern_success_rate[r.order[k]]]]
        matches == SelectSeq(candidates,
                             LAMBDA c : AtLeast(c.similarity, similarity_threshold))
    IN SortMatches(matches)

\* matches = pr.recognize_pattern(data, similarity_threshold)
RecognizePattern(data, similarity_threshold) ==
    /\ pc = "idle"
    /\ recognizer.name = "pattern_recognition"
    /\ response' = [kind |-> "recognize_pattern", data |-> data,
                    similarity_threshold |-> similarity_threshold,
                    matches |-> RecognizePatternResult(recognizer, data,
                                                       similarity_threshold)]
    /\ UNCHANGED <<active_tasks, handTask, learnVars, pc, entry, cur, plannerBuilt,
                   runVars, suspended, mlVars>>

InitPattern ==
    /\ InitSupervisor
    /\ ga = NoAlgorithm
    /\ qagent = NoAlgorithm
    /\ recognizer = PatternRecognition
    /\ patternLog = << >>

NextPattern ==
    \/ \E pattern_id \in PatternIds, pattern_data \in PatternData, success \in BOOLEAN :
           AddPattern(pattern_id, pattern_data, success)
    \/ \E data \in RecognizeData, similarity_threshold \in Thresholds :
           RecognizePattern(data, similarity_threshold)

SpecPattern == InitPattern /\ [][NextPattern]_vars

\* the add_pattern calls made for one id, in order
CallsFor(pattern_id) == SelectSeq(patternLog, LAMBDA call : call.pattern_id = pattern_id)

\* C24: after any sequence of add_pattern calls, each id that was added holds as
\* occurrence count the number of calls made for it, as success rate the number of
\* those calls with success=True over the number of those calls, and as feature
\* mapping the one passed in the last of those calls; an id never added is in none
\* of the three dicts.
C24_RunningCountAndRate ==
    recognizer.name = "pattern_recognition" =>
        \A pattern_id \in PatternIds :
            LET calls == CallsFor(pattern_id)
                n == Len(calls)
                won == Len(SelectSeq(calls, LAMBDA call : call.success))
            IN IF n = 0
               THEN /\ pattern_id \notin DOMAIN recognizer.known_patterns
                    /\ pattern_id \notin DOMAIN recognizer.pattern_frequency
                    /\ pattern_id \notin DOMAIN recognizer.pattern_success_rate
               ELSE /\ recognizer.pattern_frequency[pattern_id] = n
                    /\ recognizer.pattern_success_rate[pattern_id].num * n
                          = won * recognizer.pattern_success_rate[pattern_id].den
                    /\ recognizer.pattern_success_rate[pattern_id].den > 0
                    /\ recognizer.known_patterns[pattern_id] = calls[n].pattern_data

\* pattern1 was added three times, with success, failure, failure and a mapping
\* that changed at the last call: count 3, rate 1/3, the last mapping stored
C24_Witness ==
    /\ Len(patternLog) = 3
    /\ \A k \in 1..3 : patternLog[k].pattern_id = "pattern1"
    /\ patternLog[1].success /\ ~patternLog[2].success /\ ~patternLog[3].success
    /\ patternLog[2].pattern_data # patternLog[3].pattern_data
    /\ recognizer.pattern_frequency["pattern1"] = 3
    /\ recognizer.pattern_success_rate["pattern1"] = [num |-> 1, den |-> 3]
    /\ recognizer.known_patterns["pattern1"] = patternLog[3].pattern_data

---------------------------------------------------------------------------
(* Similarity and recognition as the specification words them *)

\* x = y on fractions
SameFraction(x, y) == x.num * y.den = y.num * x.den

\* the keys of both mappings whose two values are two strings or two numbers
ComparableKeys(data1, data2) ==
    { k \in DOMAIN data1 \cap DOMAIN data2 :
        \/ data1[k].type = "str" /\ data2[k].type = "str"
        \/ data1[k].type = "number" /\ data2[k].type = "number" }

\* max(0, 1 - |a-b| / max(|a|,|b|,1))
NumberScore(a, b) ==
    LET largest == Largest(Largest(Abs(a), Abs(b)), 1)
        distance == Abs(a - b)
    IN [num |-> IF distance >= largest THEN 0 ELSE largest - distance, den |-> largest]

\* 1 for two strings that match exactly, 0 otherwise; NumberScore for two numbers
ExactScore(val1, val2) ==
    IF val1.type = "str"
    THEN [num |-> IF val1.value = val2.value THEN 1 ELSE 0, den |-> 1]
    ELSE NumberScore(val1.value, val2.value)

\* 1 for two strings that are equal once case is folded, 0 otherwise; NumberScore
\* for two numbers
FoldedScore(val1, val2) ==
    IF val1.type = "str"
    THEN [num |-> IF LowerText(val1.value) = LowerText(val2.value) THEN 1 ELSE 0, den |-> 1]
    ELSE NumberScore(val1.value, val2.value)

RECURSIVE MeanOf(_, _, _)
\* the mean of scores[k] over k in keys, n the number of keys averaged over
MeanOf(keys, scores, n) ==
    IF keys = {} THEN [num |-> 0, den |-> 1]
    ELSE LET k == CHOOSE x \in keys : TRUE
             rest == MeanOf(keys \ {k}, scores, n)
         IN [num |-> scores[k].num * rest.den + rest.num * scores[k].den * n,
             den |-> scores[k].den * n * rest.den]

\* the mean over all keys present in both mappings of the exact-match score
ExactSimilarity(data1, data2) ==
    LET keys == DOMAIN data1 \cap DOMAIN data2
    IN MeanOf(keys, [k \in keys |-> ExactScore(data1[k], data2[k])], Cardinality(keys))

\* the mean over the comparable keys of the case-folded score, 0 when there is none
FoldedSimilarity(data1, data2) ==
    LET keys == ComparableKeys(data1, data2)
    IN MeanOf(keys, [k \in keys |-> FoldedScore(data1[k], data2[k])], Cardinality(keys))

\* what recognize_pattern returned is, under the similarity Sim, exactly the known
\* patterns at or above the threshold, each once, with its similarity, count and
\* rate, in descending order of similarity * success rate
RecognizedBy(Sim(_, _)) ==
    LET matches == response.matches
        data == response.data
        known == recognizer.known_patterns
    IN /\ { matches[k].pattern_id : k \in 1..Len(matches) }
              = { id \in DOMAIN known :
                    AtLeast(Sim(data, known[id]), response.similarity_threshold) }
       /\ \A i, j \in 1..Len(matches) :
              i < j => /\ matches[i].pattern_id # matches[j].pattern_id
                       /\ AtLeast(MatchKey(matches[i]), MatchKey(matches[j]))
       /\ \A k \in 1..Len(matches) :
              LET id == matches[k].pattern_id IN
              /\ SameFraction(matches[k].similarity, Sim(data, known[id]))
              /\ matches[k].frequency = recognizer.pattern_frequency[id]
              /\ matches[k].success_rate = recognizer.pattern_success_rate[id]

---------------------------------------------------------------------------
(* average_reward of QLearningAgent.adapt *)

\* C26: when adapt() is called on a QLearningAgent whose reward history is empty
\* (the first call on the object), the average_reward it returns is 0.0.
C26_FirstAverageRewardIsZero ==
    (/\ response.kind = "adapt"
     /\ response.algorithm = "q_learning"
     /\ Len(qagent.reward_history) = 1)
        => response.average_reward.sum = 0

---------------------------------------------------------------------------
(* Fitness of the individuals evolve_generation leaves *)

\* C27: after evolve_generation has returned, every individual of the population,
\* survivor or new offspring, carries a calculated fitness: its fitness field is
\* the fitness function of its genes, and it is > 0 whenever its first two genes
\* are not both 0.
C27_EveryFitnessCalculated ==
    (/\ pc = "idle"
     /\ response.kind = "evolve_generation"
     /\ response.raised = "None")
        => \A k \in 1..Len(ga.population) :
               /\ ga.population[k].fitness = FitnessFunction(ga.population[k].genes)
               /\ FitnessFunction(ga.population[k].genes) > 0
                      => ga.population[k].fitness > 0

---------------------------------------------------------------------------
(* Specification: requests and direct _execute_plan calls whose tool collaborator
   returns, raises, or returns a result that finding extraction cannot read.  port["port"] (supervisor.py:313)
   and path["path"] (supervisor.py:334) are plain subscripts inside the try block
   of _execute_step: a missing key raises KeyError there. *)

\* results of a collaborator (patched as tests/test_supervisor_agent.py:403 does)
\* that lack a key extraction subscripts: an open port without "port", a path
\* of status 200 without "path"
MalformedResult(tool_name, target) ==
    IF tool_name = "gobuster_directory"
    THEN [status |-> "completed", target |-> target,
          discovered_paths |-> << [path |-> "/admin", status_code |-> 200],
                                  [status_code |-> 200] >>]
    ELSE [status |-> "completed", target |-> target,
          hosts |-> << [host |-> target, status |-> "up",
                        ports |-> << [port |-> 22, state |-> "open"],
                                     [state |-> "open"] >>] >>]

\* the tools whose results carry hosts or paths
ScanningTools == {"nmap_scan", "gobuster_directory"}

\* supervisor.py:223-225: the awaited call returns such a result
MalformedToolReturns ==
    /\ pc = "tools"
    /\ toolIdx <= Len(step.tools)
    /\ step.tools[toolIdx] \in ScanningTools
    /\ LET tool_name == step.tools[toolIdx] IN
         /\ step_results' = Append(step_results,
               [tool |-> tool_name, result |-> MalformedResult(tool_name, task.target)])
         /\ toolLog' = Append(toolLog, tool_name)
    /\ toolIdx' = toolIdx + 1
    /\ UNCHANGED <<active_tasks, handTask, learnVars, pc, entry, cur, plannerBuilt,
                   response, results, stepIdx, step_result>>
    /\ UNCHANGED <<suspended, mlVars>>

\* the key whose subscript raises KeyError in _extract_findings_from_results, or
\* "None" when every subscript finds its key
ExtractionKeyError(tool_results) ==
    LET entries == { Get(tool_results[k], "result", << >>) : k \in 1..Len(tool_results) }
        badPort == \E result \in entries :
                      /\ "hosts" \in DOMAIN result
                      /\ \E h \in 1..Len(result.hosts) :
                            LET ports == Get(result.hosts[h], "ports", << >>) IN
                            \E p \in 1..Len(ports) :
                                /\ Get(ports[p], "state", "None") = "open"
                                /\ "port" \notin DOMAIN ports[p]
        badPath == \E result \in entries :
                      /\ "discovered_paths" \in DOMAIN result
                      /\ \E p \in 1..Len(result.discovered_paths) :
                            /\ Get(result.discovered_paths[p], "status_code", 0) = 200
                            /\ "path" \notin DOMAIN result.discovered_paths[p]
    IN IF badPort THEN "port" ELSE IF badPath THEN "path" ELSE "None"

\* supervisor.py:227-232: every tool returned and extraction read every result
ReturnStepExtracted ==
    /\ ExtractionKeyError(step_results) = "None"
    /\ ReturnStep

\* supervisor.py:231, 234-235: every tool returned, extraction raises KeyError inside
\* the try block and _execute_step returns the error dict
ExtractionRaises ==
    /\ pc = "tools"
    /\ toolIdx > Len(step.tools)
    /\ ExtractionKeyError(step_results) # "None"
    /\ step_result' = StepError(step, ExtractionKeyError(step_results))
    /\ pc' = "record"
    /\ UNCHANGED <<active_tasks, handTask, learnVars, entry, cur, plannerBuilt, response,
                   results, stepIdx, toolIdx, step_results, toolLog>>
    /\ UNCHANGED <<suspended, mlVars>>

NextStepError ==
    \/ \E r \in Requests : ProcessUserRequest(r[1], r[2])
    \/ \E t \in HandBuiltTasks : DirectExecutePlan(t, FALSE)
    \/ \E t \in PlannedTasks : DirectExecutePlan(t, TRUE)
    \/ ReturnNoPlan
    \/ BeginPlan
    \/ StartStep
    \/ StepRaises
    \/ ToolReturns
    \/ MalformedToolReturns
    \/ ToolRaises
    \/ ReturnStepExtracted
    \/ ExtractionRaises
    \/ RecordStep
    \/ FinishPlan
    \/ ReturnResults
    \/ CompleteRequest

SpecStepError == Init /\ [][NextStepError]_vars

\* C28: when a tool call raises inside a step, or finding extraction raises on the
\* step's results, _execute_step returns a dict of status 'error' without
\* 'tools_executed' and without 'findings'; recording it adds the step to
\* steps_completed as such, leaves the run's findings as they were (the results of
\* the tools that had returned are dropped) and calls nothing; every tool call is
\* made by the step in progress at its current position, and the loop never goes
\* back to a step, so no later tool of the failed step is ever invoked.
C28_FailedStepYieldsNothing ==
    [][ /\ (pc = "tools" /\ pc' = "record" /\ step_result'.status = "error") =>
              /\ "tools_executed" \notin DOMAIN step_result'
              /\ "findings" \notin DOMAIN step_result'
              /\ \/ toolLog' = toolLog
                 \/ /\ toolIdx <= Len(step.tools)
                    /\ toolLog' = Append(toolLog, step.tools[toolIdx])
        /\ (pc = "record" /\ step_result.status = "error") =>
              /\ pc' = "loop"
              /\ stepIdx' = stepIdx + 1
              /\ toolLog' = toolLog
              /\ results'.findings = results.findings
              /\ Len(results'.steps_completed) = Len(results.steps_completed) + 1
              /\ LET sr == results'.steps_completed[Len(results'.steps_completed)] IN
                    /\ sr.status = "error"
                    /\ "tools_executed" \notin DOMAIN sr
                    /\ "findings" \notin DOMAIN sr
        /\ (toolLog' # toolLog /\ toolLog' # << >>) =>
              /\ pc = "tools"
              /\ stepIdx' = stepIdx
              /\ toolIdx <= Len(step.tools)
              /\ toolLog' = Append(toolLog, step.tools[toolIdx])
        /\ (pc # "idle" /\ pc' # "idle") => stepIdx' >= stepIdx
      ]_vars

\* a penetration test has returned: in its first step nmap_scan returned and
\* network_discovery raised, in its second gobuster_directory returned a path
\* without "path" and extraction raised after nikto_scan; neither step left a
\* finding, the two later steps ran
C28_Witness ==
    /\ pc = "idle"
    /\ response.kind = "process_user_request"
    /\ Len(results.steps_completed) = 4
    /\ results.steps_completed[1].status = "error"
    /\ results.steps_completed[1].error = "Tool execution failed"
    /\ results.steps_completed[2].status = "error"
    /\ results.steps_completed[2].error = "path"
    /\ results.steps_completed[3].status = "completed"
    /\ toolLog = <<"nmap_scan", "network_discovery", "gobuster_directory", "nikto_scan",
                   "sqlmap_test", "generate_report">>
    /\ \A k \in 1..Len(results.findings) :
           results.findings[k].type \notin {"open_port", "interesting_path"}
    /\ Len(results.errors) = 2

---------------------------------------------------------------------------
(* Runs on the plans of the planner *)

\* the run in flight, or the last one, is on a plan _create_execution_plan built
OnPlannerPlan ==
    \/ entry = "process_user_request"
    \/ entry = "_execute_plan" /\ 0 \in plannerBuilt

\* C29: on every plan built by the planner, whatever the tool calls return or
\* raise, no exception escapes step execution: every step dict carries the keys
\* read, the except clause of _execute_plan is never entered, a finished run has
\* one steps_completed entry per plan step and no 'Execution failed' error, and no
\* Task of process_user_request is ever FAILED.
C29_PlannerPlansNeverAbort ==
    /\ \A i \in 1..Len(active_tasks) : active_tasks[i].status # "failed"
    /\ (OnPlannerPlan /\ (pc # "idle" \/ RunFinished)) =>
           /\ \A k \in 1..Len(plan.steps) : MissingKey(plan.steps[k]) = "None"
           /\ pc # "finish"
           /\ ~Aborted(results)
           /\ Len(results.steps_completed) <= Len(plan.steps)
           /\ RunFinished =>
                  /\ Len(results.steps_completed) = Len(plan.steps)
                  /\ task.status # "failed"
                  /\ Len(results.errors) = Len(ErrorSteps(results))

\* _execute_plan has returned on a hand-built web assessment Task carrying the
\* planner's plan: its first step failed at a tool call, its second at finding
\* extraction; both steps are recorded and the Task is still PENDING
C29_Witness ==
    /\ pc = "idle"
    /\ entry = "_execute_plan"
    /\ 0 \in plannerBuilt
    /\ response.kind = "_execute_plan"
    /\ handTask[1].task_type = "web_assessment"
    /\ Len(results.steps_completed) = 2
    /\ \A k \in 1..2 : "error" \in DOMAIN results.steps_completed[k]
    /\ results.steps_completed[1].error # results.steps_completed[2].error
    /\ handTask[1].status = "pending"

---------------------------------------------------------------------------
(* Elitism of the genetic algorithm *)

\* the greatest value fitness_function gives on an individual of the population
BestFitness(population) ==
    CHOOSE f \in { FitnessFunction(population[k].genes) : k \in 1..Len(population) } :
        \A k \in 1..Len(population) : FitnessFunction(population[k].genes) <= f

\* C30: on an object of population_size >= 2, every generation made from a
\* population carries its best population_size // 2 individuals over with their
\* genes as they were and their calculated fitness, so neither the best value of
\* the fitness function in the population nor the best fitness an individual
\* carries decreases; nothing else changes the population; and every adapt() call
\* returns, as 'fitness', the best fitness carried, which is the fitness function
\* of the 'best_strategy' genes it returns.  The 'fitness' of successive adapt()
\* calls is then non-decreasing.
C30_ElitismKeepsBest ==
    [][ga.population_size >= 2 =>
          /\ (ga'.generation = ga.generation + 1 /\ ga.population # << >>) =>
                LET best == BestFitness(ga.population) IN
                /\ \A k \in 1..(ga.population_size \div 2) :
                      /\ \E j \in 1..Len(ga.population) :
                            ga'.population[k].genes = ga.population[j].genes
                      /\ ga'.population[k].fitness =
                            FitnessFunction(ga'.population[k].genes)
                /\ ga'.population[1].fitness = best
                /\ BestFitness(ga'.population) >= best
                /\ BestIndividual(ga'.population).fitness >=
                      BestIndividual(ga.population).fitness
          /\ (ga'.generation = ga.generation /\ ga.population # << >>) =>
                ga'.population = ga.population
          /\ (response'.kind = "adapt" /\ response' # response) =>
                /\ response'.raised = "None"
                /\ response'.fitness = FitnessFunction(response'.best_strategy)
                /\ response'.fitness = BestIndividual(ga'.population).fitness
                /\ response'.fitness >= BestIndividual(ga.population).fitness
    ]_vars

\* a second adapt() call has returned: the strategy returned is a survivor carrying
\* its calculated fitness, above 0.5, while a mutated child of the population, whose
\* fitness was never calculated, has genes the fitness function rates higher
C30_Witness ==
    /\ pc = "idle"
    /\ response.kind = "adapt"
    /\ response.raised = "None"
    /\ ga.generation = 10
    /\ ga.population_size >= 2
    /\ response.fitness = FitnessFunction(response.best_strategy)
    /\ response.fitness > 2 * GeneUnit
    /\ \E k \in 1..Len(ga.population) :
          /\ ga.population[k].fitness = 0
          /\ FitnessFunction(ga.population[k].genes) > response.fitness

====
